---- MODULE Spec2Model ----
(***************************************************************************)
(* Model of the migraine-risk backend: the sensor stream's per-user data   *)
(* store, trainer and predictor (sensorDataAi/user_model_manager.py,       *)
(* sensorDataAi/simple_predict.py, sensorAiGet.py), the survey stream's    *)
(* model resolution (survey_model/inference.py) and the feature validator  *)
(* (sensorDataAi/data_utils.py).                                           *)
(*                                                                         *)
(* The files of one user id are followed: every path is derived from the   *)
(* user id alone (user_model_manager.py lines 33-46) and no operation      *)
(* touches the files of another user.                                      *)
(***************************************************************************)
EXTENDS Integers, Sequences, FiniteSets, TLC

(***************************************************************************)
(* Bounds of the model.                                                    *)
(***************************************************************************)
\* number of records the one-at-a-time requests may store
MaxClock == 11
\* number of records the concurrent requests may add to the stored rows
MaxSaves == 3
\* number of training runs that may be started
MaxRuns == 2
\* rows a user may already have on disk when the concurrent requests arrive
StoredRows == 8
\* features of an input map that sit at the top of their range
MaxHigh == 2
\* reorderings of an input map
MaxSwaps == 2
\* features of a validated map that are absent or off the bottom of their range
MaxDeviations == 2
\* days the database returns for a request, and columns of one day that are
\* None or off the bottom of their range
MaxDays == 2
MaxRowDeviations == 1
\* stretches of days of one kind inside the days of a request
MaxBlocks == 2
\* ranked factors the survey stream returns with a probability
MaxTopFeatures == 2
\* rows the store returns beyond one a day for the last 7 days
MaxExtraRows == 1
\* labeled rows of one outcome in the user's daily_sensor table
MaxDbRows == 10
\* rows train_user_model_from_db stores before its calls stop
MaxDbClock == 22
\* users of a base training corpus, and rows of one user in it
MaxUsers == 6
MaxRowsPerUser == 2

(***************************************************************************)
(* Program constants.                                                      *)
(***************************************************************************)
\* default of min_data_points; every caller in the repository uses the default
MinDataPoints == 10

\* a path at which nothing has been written yet
NoFile == [exists |-> FALSE, rows |-> <<>>]
NoArtifact == [exists |-> FALSE, run |-> 0, data_points |-> 0]
Labels == {0, 1}
Writers == {"w1", "w2"}

VARIABLES
    dataFile,     \* user_<id>_data.csv: NoFile or the stored rows
    modelFile,    \* user_<id>_model.pkl: NoArtifact or the pickled classifier
    scalerFile,   \* user_<id>_scaler.pkl: NoArtifact or the pickled scaler
    clock,        \* pd.Timestamp.now(), one tick per record built
    runs,         \* number of training runs that reached fit()
    wpc,          \* per writer: position inside save_user_data
    wrecord,      \* per writer: the record built at lines 96-98
    wdf,          \* per writer: df_existing read at line 109 (NoFile if absent)
    tpc,          \* trainer: position inside train_user_model
    tfit,         \* trainer: the fitted (model, scaler) pair held in memory
    ppc,          \* predictor: position inside predict / load_user_model
    pmodel,       \* predictor: classifier loaded at line 75
    ret,          \* result of the most recently finished call
    returned,     \* history: Timestamps of the records whose save has returned
    sensorBase,   \* sensorDataAi/models/migraine_model.pkl and its scaler exist
    surveyBase,   \* survey_model/models/best_model.pkl exists
    surveyUser,   \* user ids with a survey_model/models/user_models file
    data,         \* an input feature map, as the ordered items of a Python dict
    data2,        \* the same items inserted in another order
    swaps,        \* number of reorderings applied to data2
    rows,         \* the daily_sensor rows the database returns for a request
    classifier_proba, \* a classifier's predict_proba output, in thousandths
    surveyInput,  \* what the survey stream finds for a request
    env,          \* the request's caller and the streams the router imported
    MODEL_PATH,   \* survey_model/inference.py module-level MODEL_PATH
    survey_pc,    \* survey requests: position inside check_migraine_risk_from_survey
    baseRows,     \* the rows of a base-model training set
    dbRows        \* the labeled daily_sensor rows of the user

vars == <<dataFile, modelFile, scalerFile, clock, runs, wpc, wrecord, wdf,
          tpc, tfit, ppc, pmodel, ret, returned,
          sensorBase, surveyBase, surveyUser, data, data2, swaps, rows,
          classifier_proba, surveyInput, env,
          MODEL_PATH, survey_pc, baseRows, dbRows>>

storeVars == <<dataFile, modelFile, scalerFile>>
writerVars == <<wpc, wrecord, wdf>>
trainerVars == <<tpc, tfit>>
predictorVars == <<ppc, pmodel>>
deployVars == <<sensorBase, surveyBase, surveyUser>>
requestVars == <<classifier_proba, surveyInput, env>>
jobVars == <<MODEL_PATH, survey_pc, baseRows, dbRows>>
inputVars == <<data, data2, swaps, rows, requestVars, jobVars>>
\* what the data store, the trainer and the predictor never touch
offStore == <<deployVars, inputVars>>

(***************************************************************************)
(* The per-user dataset: user_model_manager.py, save_user_data.            *)
(*                                                                         *)
(* A data_dict is followed by what the code inspects of it: whether the    *)
(* label key is present, whether all ten feature keys are present, and the *)
(* label value.  A stored row keeps its Timestamp and its label.           *)
(***************************************************************************)
DataDicts ==
    [has_label : {TRUE}, Migraine_today_0_or_1 : Labels, features : {"complete"}]
    \cup {[has_label |-> FALSE, Migraine_today_0_or_1 |-> 0, features |-> "complete"],
          [has_label |-> TRUE, Migraine_today_0_or_1 |-> 1, features |-> "missing"]}

NoRecord ==
    [Timestamp |-> [kind |-> "Timestamp", at |-> 0], Migraine_today_0_or_1 |-> 0]

\* lines 96-98: record = data_dict.copy(); record['Timestamp'] = pd.Timestamp.now()
Record(data_dict, now) ==
    [Timestamp |-> [kind |-> "Timestamp", at |-> now],
     Migraine_today_0_or_1 |-> data_dict.Migraine_today_0_or_1]

\* DataFrame.to_csv writes a Timestamp object as its text; a text cell stays text
CsvCell(cell) == [kind |-> "str", at |-> cell.at]

ToCsv(df) ==
    [exists |-> TRUE,
     rows |-> [i \in 1..Len(df) |->
                 [Timestamp |-> CsvCell(df[i].Timestamp),
                  Migraine_today_0_or_1 |-> df[i].Migraine_today_0_or_1]]]

\* pd.read_csv: the Timestamp column comes back as text, the label as an integer
ReadCsv(file) == file.rows

\* lines 106-110: the frame that is written back
ConcatRecordFirst(df_existing, record) ==
    IF ~df_existing.exists THEN <<record>> ELSE <<record>> \o df_existing.rows

\* df_existing: whether the file was there (line 108) and what was read (109)
Concat(df_existing, record) ==
    IF ~df_existing.exists THEN <<record>> ELSE Append(df_existing.rows, record)

\* lines 54-57
user_has_data(file) == file.exists

\* lines 59-65
get_user_data_count(file) ==
    IF ~user_has_data(file) THEN 0 ELSE Len(ReadCsv(file))

\* lines 48-52
user_has_model == modelFile.exists /\ scalerFile.exists

\* lines 92-93 and 101-103: the two ValueErrors of save_user_data
SaveError(data_dict) ==
    IF ~data_dict.has_label
    THEN [op |-> "save_user_data", error |-> "ValueError", msg |-> "must include label"]
    ELSE IF data_dict.features = "missing"
    THEN [op |-> "save_user_data", error |-> "ValueError", msg |-> "missing feature"]
    ELSE [op |-> "save_user_data", error |-> "none"]

\* lines 108-109: what a writer reads before it concatenates
ReadExisting ==
    IF ~dataFile.exists THEN NoFile ELSE [exists |-> TRUE, rows |-> ReadCsv(dataFile)]

\* save_user_data as one uninterrupted call (lines 80-115)
save_user_data(data_dict) ==
    /\ clock < MaxClock
    /\ IF SaveError(data_dict).error # "none"
       THEN /\ ret' = SaveError(data_dict)
            /\ UNCHANGED <<dataFile, clock, returned>>
       ELSE LET df_record == Concat(ReadExisting, Record(data_dict, clock + 1))
            IN  /\ dataFile' = ToCsv(df_record)
                /\ clock' = clock + 1
                /\ returned' = returned \cup {clock + 1}
                /\ ret' = [op |-> "save_user_data", error |-> "none",
                           total |-> Len(df_record), at |-> clock + 1]
    /\ UNCHANGED <<modelFile, scalerFile, runs, writerVars, trainerVars, predictorVars, offStore>>

\* save_user_data, first half: lines 88-110 (validate, build the record, read)
SaveRead(w, data_dict) ==
    /\ wpc[w] = "idle"
    /\ clock < StoredRows + MaxSaves
    /\ IF SaveError(data_dict).error # "none"
       THEN /\ ret' = SaveError(data_dict)
            /\ UNCHANGED <<clock, writerVars>>
       ELSE /\ wrecord' = [wrecord EXCEPT ![w] = Record(data_dict, clock + 1)]
            /\ wdf' = [wdf EXCEPT ![w] = ReadExisting]
            /\ wpc' = [wpc EXCEPT ![w] = "read"]
            /\ clock' = clock + 1
            /\ UNCHANGED ret
    /\ UNCHANGED <<storeVars, runs, trainerVars, predictorVars, returned, offStore>>

\* save_user_data, second half: lines 112-115 (write back, return the length)
SaveWrite(w) ==
    /\ wpc[w] = "read"
    /\ LET df_record == Concat(wdf[w], wrecord[w])
       IN  /\ dataFile' = ToCsv(df_record)
           /\ ret' = [op |-> "save_user_data", error |-> "none",
                      total |-> Len(df_record), at |-> wrecord[w].Timestamp.at]
    /\ returned' = returned \cup {wrecord[w].Timestamp.at}
    /\ wpc' = [wpc EXCEPT ![w] = "idle"]
    /\ wrecord' = [wrecord EXCEPT ![w] = NoRecord]
    /\ wdf' = [wdf EXCEPT ![w] = NoFile]
    /\ UNCHANGED <<modelFile, scalerFile, clock, runs, trainerVars, predictorVars, offStore>>

(***************************************************************************)
(* The trainer: user_model_manager.py, train_user_model.                   *)
(***************************************************************************)
\* lines 145-146: np.sum(y == label)
CountLabel(df, label) ==
    Cardinality({i \in 1..Len(df) : df[i].Migraine_today_0_or_1 = label})

\* lines 122-155: the outcome of the checks that precede the fit
ChecksWithoutClassCheck(file, min_data_points) ==
    IF ~file.exists
    THEN [op |-> "train_user_model", error |-> "FileNotFoundError",
          msg |-> "No training data found"]
    ELSE IF Len(ReadCsv(file)) < min_data_points
    THEN [op |-> "train_user_model", error |-> "ValueError",
          msg |-> "has only N data points",
          data_points |-> Len(ReadCsv(file)), min_data_points |-> min_data_points]
    ELSE [op |-> "train_user_model", error |-> "none",
          data_points |-> Len(ReadCsv(file)),
          migraine_count |-> CountLabel(ReadCsv(file), 1),
          no_migraine_count |-> CountLabel(ReadCsv(file), 0)]

ChecksOffByOne(file, min_data_points) ==
    IF ~file.exists
    THEN [op |-> "train_user_model", error |-> "FileNotFoundError",
          msg |-> "No training data found"]
    ELSE LET df == ReadCsv(file)
             migraine_count == CountLabel(df, 1)
             no_migraine_count == CountLabel(df, 0)
         IN  IF Len(df) < min_data_points - 1
             THEN [op |-> "train_user_model", error |-> "ValueError",
                   msg |-> "has only N data points",
                   data_points |-> Len(df), min_data_points |-> min_data_points]
             ELSE IF migraine_count = 0 \/ no_migraine_count = 0
             THEN [op |-> "train_user_model", error |-> "ValueError",
                   msg |-> "needs BOTH outcomes",
                   migraine_count |-> migraine_count,
                   no_migraine_count |-> no_migraine_count]
             ELSE [op |-> "train_user_model", error |-> "none",
                   data_points |-> Len(df),
                   migraine_count |-> migraine_count,
                   no_migraine_count |-> no_migraine_count]

TrainChecks(file, min_data_points) ==
    IF ~file.exists
    THEN [op |-> "train_user_model", error |-> "FileNotFoundError",
          msg |-> "No training data found"]
    ELSE LET df == ReadCsv(file)
             migraine_count == CountLabel(df, 1)
             no_migraine_count == CountLabel(df, 0)
         IN  IF Len(df) < min_data_points
             THEN [op |-> "train_user_model", error |-> "ValueError",
                   msg |-> "has only N data points",
                   data_points |-> Len(df), min_data_points |-> min_data_points]
             ELSE IF migraine_count = 0 \/ no_migraine_count = 0
             THEN [op |-> "train_user_model", error |-> "ValueError",
                   msg |-> "needs BOTH outcomes",
                   migraine_count |-> migraine_count,
                   no_migraine_count |-> no_migraine_count]
             ELSE [op |-> "train_user_model", error |-> "none",
                   data_points |-> Len(df),
                   migraine_count |-> migraine_count,
                   no_migraine_count |-> no_migraine_count]

\* lines 157-204: the scaler and the classifier fitted by one training run
Fit(run, result) == [exists |-> TRUE, run |-> run, data_points |-> result.data_points]

NoFit == [fit |-> NoArtifact, result |-> [op |-> "none", error |-> "none"]]

\* train_user_model as one uninterrupted call (lines 117-238)
train_user_model ==
    LET result == TrainChecks(dataFile, MinDataPoints)
    IN  /\ ret' = result
        /\ IF result.error # "none"
           THEN UNCHANGED <<modelFile, scalerFile, runs>>
           ELSE /\ runs < MaxRuns
                /\ runs' = runs + 1
                /\ modelFile' = Fit(runs + 1, result)
                /\ scalerFile' = Fit(runs + 1, result)
        /\ UNCHANGED <<dataFile, clock, returned, writerVars, trainerVars,
                       predictorVars, offStore>>

\* train_user_model up to the fit, with a failed check removing the model on disk
TrainFitRemovingModel ==
    LET result == TrainChecks(dataFile, MinDataPoints)
    IN  /\ tpc = "idle"
        /\ IF result.error # "none"
           THEN /\ ret' = result
                /\ modelFile' = NoArtifact
                /\ UNCHANGED <<dataFile, scalerFile, runs, trainerVars>>
           ELSE /\ runs < MaxRuns
                /\ runs' = runs + 1
                /\ tfit' = [fit |-> Fit(runs + 1, result), result |-> result]
                /\ tpc' = "fitted"
                /\ UNCHANGED <<storeVars, ret>>
        /\ UNCHANGED <<clock, returned, writerVars, predictorVars, offStore>>

\* train_user_model up to the fit: lines 119-217
TrainFit ==
    LET result == TrainChecks(dataFile, MinDataPoints)
    IN  /\ tpc = "idle"
        /\ IF result.error # "none"
           THEN /\ ret' = result
                /\ UNCHANGED <<runs, trainerVars>>
           ELSE /\ runs < MaxRuns
                /\ runs' = runs + 1
                /\ tfit' = [fit |-> Fit(runs + 1, result), result |-> result]
                /\ tpc' = "fitted"
                /\ UNCHANGED ret
        /\ UNCHANGED <<storeVars, clock, returned, writerVars, predictorVars, offStore>>

\* line 223: joblib.dump(model, model_path)
TrainDumpModel ==
    /\ tpc = "fitted"
    /\ modelFile' = tfit.fit
    /\ tpc' = "model dumped"
    /\ UNCHANGED <<dataFile, scalerFile, clock, runs, returned, tfit, ret,
                   writerVars, predictorVars, offStore>>

\* lines 224-238: joblib.dump(scaler, scaler_path), then the report is returned
TrainDumpScaler ==
    /\ tpc = "model dumped"
    /\ scalerFile' = tfit.fit
    /\ ret' = tfit.result
    /\ tpc' = "idle"
    /\ tfit' = NoFit
    /\ UNCHANGED <<dataFile, modelFile, clock, runs, returned,
                   writerVars, predictorVars, offStore>>

(***************************************************************************)
(* The sensor stream's predictor: simple_predict.py predict_migraine and   *)
(* user_model_manager.py predict / load_user_model.  A loaded artifact is  *)
(* followed by the training run that produced it.                          *)
(***************************************************************************)
\* simple_predict.py lines 71-78
NoTrainedModel ==
    [op |-> "predict_migraine", error |-> "FileNotFoundError",
     msg |-> "No trained model found",
     data_points |-> get_user_data_count(dataFile)]

\* user_model_manager.py lines 250-271 with the pair that was loaded
Predicted(model, scaler) ==
    [op |-> "predict_migraine", error |-> "none",
     model_type |-> "personalized",
     model_run |-> model.run, scaler_run |-> scaler.run]

\* predict_migraine as one uninterrupted call
predict_migraine ==
    /\ ret' = IF user_has_model THEN Predicted(modelFile, scalerFile) ELSE NoTrainedModel
    /\ UNCHANGED <<storeVars, clock, runs, returned, writerVars, trainerVars,
                   predictorVars, offStore>>

\* simple_predict.py line 71, user_model_manager.py lines 243 and 69
PredictCheck ==
    /\ ppc = "idle"
    /\ IF user_has_model
       THEN /\ ppc' = "checked"
            /\ UNCHANGED <<ret, pmodel>>
       ELSE /\ ret' = NoTrainedModel
            /\ UNCHANGED predictorVars
    /\ UNCHANGED <<storeVars, clock, runs, returned, writerVars, trainerVars, offStore>>

\* user_model_manager.py line 75: model = joblib.load(model_path)
PredictLoadModel ==
    /\ ppc = "checked"
    /\ pmodel' = modelFile
    /\ ppc' = "model loaded"
    /\ UNCHANGED <<storeVars, clock, runs, returned, ret, writerVars, trainerVars, offStore>>

\* user_model_manager.py line 76 and lines 252-271: load the scaler, score
PredictLoadScaler ==
    /\ ppc = "model loaded"
    /\ ret' = Predicted(pmodel, scalerFile)
    /\ pmodel' = NoArtifact
    /\ ppc' = "idle"
    /\ UNCHANGED <<storeVars, clock, runs, returned, writerVars, trainerVars, offStore>>

(***************************************************************************)
(* Specifications of the data store, trainer and predictor.                *)
(***************************************************************************)
NoCall == [op |-> "none", error |-> "none"]

\* no request to the router is being served
NoSurveyInput == [days |-> 0, top_features |-> <<>>, raises |-> FALSE]
NoRequest ==
    [authorized |-> TRUE, valid_id |-> TRUE, sensor |-> TRUE, survey |-> TRUE,
     db_raises |-> FALSE]

\* the survey requests that may be served at the same time
SurveyCallers == {"r1", "r2"}

\* inference.py line 17 as imported, no survey request in progress, no
\* training job given
InitNoJobs ==
    /\ MODEL_PATH = "models/best_model.pkl"
    /\ survey_pc = [c \in SurveyCallers |->
                      [pc |-> "idle", original_model_path |-> "models/best_model.pkl"]]
    /\ baseRows = <<>>
    /\ dbRows = <<>>

InitNoRequest ==
    /\ InitNoJobs
    /\ classifier_proba = 0
    /\ surveyInput = NoSurveyInput
    /\ env = NoRequest

InitOffStore ==
    /\ sensorBase = FALSE
    /\ surveyBase = FALSE
    /\ surveyUser = {}
    /\ data = <<>>
    /\ data2 = <<>>
    /\ swaps = 0
    /\ rows = <<>>
    /\ InitNoRequest

\* a fresh UserModelManager: both directories exist and are empty (lines 18-24)
InitEmpty ==
    /\ dataFile = NoFile
    /\ clock = 0
    /\ returned = {}

\* a UserModelManager constructed over the directories an earlier process left:
\* the user stored n rows one call after the other and has not trained yet
InitStored(n) ==
    /\ dataFile = ToCsv([i \in 1..n |-> Record([Migraine_today_0_or_1 |-> 0], i)])
    /\ clock = n
    /\ returned = 1..n

\* no training run yet
InitUntrained ==
    /\ modelFile = NoArtifact
    /\ scalerFile = NoArtifact
    /\ runs = 0

\* the directories of a user who stored MinDataPoints rows of alternating
\* outcome, one call after the other, and then trained once
InitTrained ==
    /\ dataFile = ToCsv([i \in 1..MinDataPoints |->
                            Record([Migraine_today_0_or_1 |-> i % 2], i)])
    /\ clock = MinDataPoints
    /\ returned = 1..MinDataPoints
    /\ modelFile = Fit(1, TrainChecks(dataFile, MinDataPoints))
    /\ scalerFile = Fit(1, TrainChecks(dataFile, MinDataPoints))
    /\ runs = 1

\* no request is in flight
InitIdle ==
    /\ wpc = [w \in Writers |-> "idle"]
    /\ wrecord = [w \in Writers |-> NoRecord]
    /\ wdf = [w \in Writers |-> NoFile]
    /\ tpc = "idle"
    /\ tfit = NoFit
    /\ ppc = "idle"
    /\ pmodel = NoArtifact
    /\ ret = NoCall

Init == InitStored(StoredRows) /\ InitUntrained /\ InitIdle /\ InitOffStore

InitSeq == InitEmpty /\ InitUntrained /\ InitIdle /\ InitOffStore

\* requests of one user served concurrently: two writers, a trainer, a predictor
Next ==
    \/ \E w \in Writers, d \in DataDicts : SaveRead(w, d)
    \/ \E w \in Writers : SaveWrite(w)
    \/ TrainFit
    \/ TrainDumpModel
    \/ TrainDumpScaler
    \/ PredictCheck
    \/ PredictLoadModel
    \/ PredictLoadScaler

Spec == Init /\ [][Next]_vars

\* requests of one user served one at a time
NextSeq ==
    \/ \E d \in DataDicts : save_user_data(d)
    \/ train_user_model
    \/ predict_migraine

SpecSeq == InitSeq /\ [][NextSeq]_vars

(***************************************************************************)
(* Claims about the data store, the trainer and the predictor.             *)
(***************************************************************************)
StoredTimestamps == {dataFile.rows[i].Timestamp.at : i \in 1..Len(dataFile.rows)}

HasBothLabels(file) ==
    \A label \in Labels :
        \E i \in 1..Len(file.rows) : file.rows[i].Migraine_today_0_or_1 = label

AllLabelsIdentical(file) ==
    \A i, j \in 1..Len(file.rows) :
        file.rows[i].Migraine_today_0_or_1 = file.rows[j].Migraine_today_0_or_1

\* C1: whenever no save_user_data call is in flight, every record whose call
\* has returned is in the dataset and the dataset has exactly one row per
\* returned call: concurrent appends of one user lose no update.
C1_NoLostUpdate ==
    (\A w \in Writers : wpc[w] = "idle")
        => /\ returned \subseteq StoredTimestamps
           /\ get_user_data_count(dataFile) = Cardinality(returned)

\* C2: a successful save_user_data call served on its own appends exactly one
\* row at the end, leaves the rows stored before it unchanged and in order,
\* and returns the previous count plus one, which is what get_user_data_count
\* reports afterwards.
C2_AppendOneRow ==
    [][(ret'.op = "save_user_data" /\ ret'.error = "none" /\ clock' # clock)
        => /\ Len(dataFile'.rows) = Len(dataFile.rows) + 1
           /\ SubSeq(dataFile'.rows, 1, Len(dataFile.rows)) = dataFile.rows
           /\ dataFile'.rows[Len(dataFile'.rows)].Timestamp.at = ret'.at
           /\ ret'.total = get_user_data_count(dataFile) + 1
           /\ ret'.total = get_user_data_count(dataFile')]_vars

\* C2 witness: a third row has been appended to two stored rows.
C2_Witness ==
    /\ ret.op = "save_user_data"
    /\ ret.error = "none"
    /\ ret.total = 3
    /\ Len(dataFile.rows) = 3

\* C3: a per-user model exists only if the stored dataset holds at least 10
\* rows and has a row of each label.
C3_ModelOnlyWithEnoughData ==
    user_has_model
        => /\ get_user_data_count(dataFile) >= MinDataPoints
           /\ HasBothLabels(dataFile)

\* C4 as stated: training with fewer than 10 stored rows fails with the
\* insufficient-data error, which carries the shortfall, and there is no model.
C4_InsufficientDataError ==
    (ret.op = "train_user_model" /\ get_user_data_count(dataFile) < MinDataPoints)
        => /\ ret.error = "ValueError"
           /\ ret.msg = "has only N data points"
           /\ ret.min_data_points - ret.data_points
                  = MinDataPoints - get_user_data_count(dataFile)
           /\ ~user_has_model

\* C4 amended: training with a data file of fewer than 10 rows fails with the
\* ValueError that reports the row count and the required minimum 10; with no
\* data file at all it fails with FileNotFoundError; no model exists after
\* either failure.
C4_FailsBelowMinimum ==
    (ret.op = "train_user_model" /\ get_user_data_count(dataFile) < MinDataPoints)
        => /\ IF user_has_data(dataFile)
              THEN /\ ret.error = "ValueError"
                   /\ ret.msg = "has only N data points"
                   /\ ret.data_points = get_user_data_count(dataFile)
                   /\ ret.min_data_points = MinDataPoints
              ELSE /\ ret.error = "FileNotFoundError"
                   /\ ret.msg = "No training data found"
           /\ ~user_has_model

\* C4 witness: training was refused with nine rows stored.
C4_Witness ==
    /\ ret.op = "train_user_model"
    /\ ret.error = "ValueError"
    /\ get_user_data_count(dataFile) = MinDataPoints - 1
    /\ HasBothLabels(dataFile)

\* C5: a training call over at least 10 rows that all carry the same label
\* fails with the both-outcomes error, which is not the too-few-rows error,
\* and leaves the model and scaler files as they were.
C5_SingleClassError ==
    [][(/\ ret'.op = "train_user_model"
        /\ get_user_data_count(dataFile) >= MinDataPoints
        /\ AllLabelsIdentical(dataFile))
        => /\ ret'.error = "ValueError"
           /\ ret'.msg = "needs BOTH outcomes"
           /\ ret'.msg # "has only N data points"
           /\ ~user_has_model'
           /\ UNCHANGED <<modelFile, scalerFile>>]_vars

\* C5 witness: training was refused over ten rows of one label.
C5_Witness ==
    /\ ret.op = "train_user_model"
    /\ ret.error = "ValueError"
    /\ get_user_data_count(dataFile) >= MinDataPoints
    /\ AllLabelsIdentical(dataFile)

\* C6: a prediction applies a classifier and a scaler of the same training run.
C6_PairedArtifacts ==
    (ret.op = "predict_migraine" /\ ret.error = "none")
        => ret.model_run = ret.scaler_run

(***************************************************************************)
(* Model resolution in the two streams.  Sensor stream: sensorAiGet.py     *)
(* check_migraine_risk calls predict_migraine above.  Survey stream:       *)
(* survey_model/inference.py load_model.                                   *)
(***************************************************************************)
\* user ids of requests; Python treats the id 0 as false (inference.py line 21)
UserIds == {0, 1}

\* retrain_user_model.py line 17
MIN_USER_SAMPLES == 10

\* retrain_user_model.py lines 209-212
has_user_model(user_id) == user_id \in surveyUser

\* inference.py lines 19-45
load_model(user_id) ==
    IF user_id # 0 /\ has_user_model(user_id)
    THEN [op |-> "load_model", user_id |-> user_id, error |-> "none", model |-> "user"]
    ELSE IF surveyBase
    THEN [op |-> "load_model", user_id |-> user_id, error |-> "none", model |-> "base"]
    ELSE [op |-> "load_model", user_id |-> user_id, error |-> "FileNotFoundError",
          model |-> "none"]

\* inference.py line 191: a survey prediction resolves its model
predict_migraine_probability(user_id) ==
    /\ ret' = load_model(user_id)
    /\ UNCHANGED <<storeVars, clock, runs, returned, writerVars, trainerVars,
                   predictorVars, deployVars, inputVars>>

\* train_base_model.py lines 208-221: the survey base model is written
save_model_and_features ==
    /\ surveyBase' = TRUE
    /\ ret' = [op |-> "save_model_and_features", error |-> "none"]
    /\ UNCHANGED <<storeVars, clock, runs, returned, writerVars, trainerVars,
                   predictorVars, sensorBase, surveyUser, inputVars>>

\* train_model.py lines 282-298: the sensor base model and scaler are written
save_model ==
    /\ sensorBase' = TRUE
    /\ ret' = [op |-> "save_model", error |-> "none"]
    /\ UNCHANGED <<storeVars, clock, runs, returned, writerVars, trainerVars,
                   predictorVars, surveyBase, surveyUser, inputVars>>

\* retrain_user_model.py lines 87-207: needs MIN_USER_SAMPLES rows and the base
\* model; writes the user's survey model
retrain_user_model(user_id, n_user_samples) ==
    /\ IF n_user_samples < MIN_USER_SAMPLES \/ ~surveyBase
       THEN /\ ret' = [op |-> "retrain_user_model", user_id |-> user_id,
                       error |-> "failed", n_user_samples |-> n_user_samples]
            /\ UNCHANGED surveyUser
       ELSE /\ ret' = [op |-> "retrain_user_model", user_id |-> user_id,
                       error |-> "none", n_user_samples |-> n_user_samples]
            /\ surveyUser' = surveyUser \cup {user_id}
    /\ UNCHANGED <<storeVars, clock, runs, returned, writerVars, trainerVars,
                   predictorVars, sensorBase, surveyBase, inputVars>>

\* both streams of one deployment, requests served one at a time
NextResolve ==
    \/ \E d \in DataDicts : save_user_data(d)
    \/ train_user_model
    \/ predict_migraine
    \/ \E u \in UserIds : predict_migraine_probability(u)
    \/ save_model_and_features
    \/ save_model
    \/ \E u \in UserIds, n \in {MIN_USER_SAMPLES - 1, MIN_USER_SAMPLES} :
           retrain_user_model(u, n)

SpecResolve == Init /\ [][NextResolve]_vars

\* C7: in each stream a prediction uses the per-user model if the user has
\* one, otherwise the base model, and fails for want of a model only if
\* neither exists.
C7_ModelResolution ==
    /\ ret.op = "predict_migraine"
          => /\ (user_has_model => ret.error = "none")
             /\ (~user_has_model /\ sensorBase => ret.error = "none")
             /\ (ret.error # "none" => ~user_has_model /\ ~sensorBase)
    /\ ret.op = "load_model"
          => /\ (has_user_model(ret.user_id) => ret.model = "user")
             /\ (~has_user_model(ret.user_id) /\ surveyBase => ret.model = "base")
             /\ (ret.error # "none" => ~has_user_model(ret.user_id) /\ ~surveyBase)

(***************************************************************************)
(* Feature maps.  A Python dict is the sequence of its items in insertion  *)
(* order.  Every feature value is held in tenths of the feature's unit     *)
(* (Sleep_h 65 is 6.5 hours), a probability in hundredths of a percent     *)
(* (9500 is 95%), a raw classifier probability in thousandths.             *)
(***************************************************************************)
\* user_model_manager.py lines 26-31 (the same list as sensorAiGet.py lines 14-19)
feature_names ==
    <<"Screen_time_h", "Average_heart_rate_bpm", "Steps_and_activity",
      "Sleep_h", "Stress_level_0_100", "Respiration_rate_breaths_min",
      "Saa_Temperature_average_C", "Saa_Air_quality_0_5",
      "Received_Condition_0_3", "Received_Air_Pressure_hPa">>

FeatureSet == {feature_names[i] : i \in 1..Len(feature_names)}

\* data_utils.py lines 20-31, in tenths
FEATURE_RANGES ==
    [Screen_time_h |-> <<0, 240>>,
     Average_heart_rate_bpm |-> <<400, 2000>>,
     Steps_and_activity |-> <<0, 500000>>,
     Sleep_h |-> <<0, 240>>,
     Stress_level_0_100 |-> <<0, 1000>>,
     Respiration_rate_breaths_min |-> <<80, 300>>,
     Saa_Temperature_average_C |-> <<-200, 500>>,
     Saa_Air_quality_0_5 |-> <<0, 50>>,
     Received_Condition_0_3 |-> <<0, 30>>,
     Received_Air_Pressure_hPa |-> <<9500, 10500>>]

Keys(dict) == {dict[i].key : i \in 1..Len(dict)}

\* dict[key]
Get(dict, key) == dict[CHOOSE i \in 1..Len(dict) : dict[i].key = key].value

\* {feature: values[feature] for feature in feature_names}
DictOf(values) ==
    [i \in 1..Len(feature_names) |->
        [key |-> feature_names[i], value |-> values[feature_names[i]]]]

\* user_model_manager.py line 253: the vector handed to the scaler
FeaturesInInsertionOrder(data_dict) ==
    [i \in 1..Len(feature_names) |-> data_dict[i].value]

Features(data_dict) ==
    [i \in 1..Len(feature_names) |-> Get(data_dict, feature_names[i])]

\* survey_model/inference.py lines 126-137: the frame is reindexed by the
\* model's feature_names, a missing column is filled with 0
Reindex(features_dict, names) ==
    [i \in 1..Len(names) |->
        IF names[i] \in Keys(features_dict) THEN Get(features_dict, names[i]) ELSE 0]

RECURSIVE WeightedSum(_, _)
WeightedSum(X, n) == IF n = 0 THEN 0 ELSE n * X[n] + WeightedSum(X, n - 1)

\* user_model_manager.py lines 257-258: scaler.transform and predict_proba of a
\* fitted pair are a fixed function of the ordered vector; a position-weighted
\* sum stands for it, so that the same values in another order score differently
predict_proba(X) == WeightedSum(X, Len(X)) % 1001

\* user_model_manager.py lines 262-269 with smoothing_factor 0
SmoothingFactorZero(raw_proba) ==
    LET probability == raw_proba * 10
    IN  IF probability < 0 THEN 0 ELSE IF probability > 10000 THEN 10000 ELSE probability

\* user_model_manager.py lines 262-269: smoothing_factor 0.05, percent, clamp
Smooth(raw_proba) ==
    LET probability == raw_proba * 9 + 500
    IN  IF probability < 0 THEN 0 ELSE IF probability > 10000 THEN 10000 ELSE probability

\* user_model_manager.py lines 240-271: UserModelManager.predict
predict(data_dict) ==
    IF ~user_has_model
    THEN [op |-> "predict", error |-> "FileNotFoundError"]
    ELSE IF ~(FeatureSet \subseteq Keys(data_dict))
    THEN [op |-> "predict", error |-> "KeyError"]
    ELSE [op |-> "predict", error |-> "none",
          features |-> Features(data_dict),
          probability |-> Smooth(predict_proba(Features(data_dict)))]

(***************************************************************************)
(* The same feature map in two insertion orders.                           *)
(***************************************************************************)
\* a complete in-range vector: the features in high at the top of their range,
\* the others at the bottom
BoundaryVector(high) ==
    [k \in FeatureSet |-> IF k \in high THEN FEATURE_RANGES[k][2] ELSE FEATURE_RANGES[k][1]]

OrderInputs ==
    {DictOf(BoundaryVector(high)) :
        high \in {h \in SUBSET FeatureSet : Cardinality(h) <= MaxHigh}}

InitOrder ==
    /\ InitTrained
    /\ InitIdle
    /\ sensorBase = FALSE
    /\ surveyBase = FALSE
    /\ surveyUser = {}
    /\ data \in OrderInputs
    /\ data2 = data
    /\ swaps = 0
    /\ rows = <<>>
    /\ InitNoRequest

\* the caller builds the same map with two neighbouring keys inserted the
\* other way round
Reinsert(i) ==
    /\ swaps < MaxSwaps
    /\ data2' = [data2 EXCEPT ![i] = data2[i + 1], ![i + 1] = data2[i]]
    /\ swaps' = swaps + 1
    /\ UNCHANGED <<storeVars, clock, runs, returned, writerVars, trainerVars,
                   predictorVars, deployVars, ret, data, rows, requestVars, jobVars>>

\* UserModelManager.predict on each of the two maps
PredictBoth ==
    /\ ret' = [op |-> "predict both", first |-> predict(data), second |-> predict(data2)]
    /\ UNCHANGED <<storeVars, clock, runs, returned, writerVars, trainerVars,
                   predictorVars, deployVars, inputVars>>

\* prepare_features lines 126-137 on each of the two maps
ReindexBoth ==
    /\ ret' = [op |-> "reindex both",
               first |-> Reindex(data, feature_names),
               second |-> Reindex(data2, feature_names)]
    /\ UNCHANGED <<storeVars, clock, runs, returned, writerVars, trainerVars,
                   predictorVars, deployVars, inputVars>>

NextOrder ==
    \/ \E i \in 1..(Len(feature_names) - 1) : Reinsert(i)
    \/ PredictBoth
    \/ ReindexBoth

SpecOrder == InitOrder /\ [][NextOrder]_vars

\* C8: two maps with the same items in different insertion order give the same
\* feature vector, ordered by the model's feature-name list, and the same
\* probability.
C8_OrderInvariant ==
    /\ ret.op = "predict both"
          => /\ ret.first.error = "none"
             /\ ret.second.error = "none"
             /\ ret.first.features = ret.second.features
             /\ \A i \in 1..Len(feature_names) :
                    \E j \in 1..Len(data2) :
                        /\ data2[j].key = feature_names[i]
                        /\ data2[j].value = ret.second.features[i]
             /\ ret.first.probability = ret.second.probability
    /\ ret.op = "reindex both" => ret.first = ret.second

\* C8 witness: a map whose items were inserted in another order was scored.
C8_Witness ==
    /\ ret.op = "predict both"
    /\ ret.second.error = "none"
    /\ data2 # data
    /\ Keys(data2) = Keys(data)

(***************************************************************************)
(* The sensor stream's temporal adjustment and live scoring path:          *)
(* simple_predict.py _calculate_temporal_adjustment and predict_migraine,  *)
(* sensorAiGet.py check_migraine_risk.  An adjustment is in hundredths of  *)
(* a percentage point, like a probability.                                 *)
(***************************************************************************)
Min(a, b) == IF a < b THEN a ELSE b

RECURSIVE SumSeq(_, _)
\* sum(values[:n])
SumSeq(values, n) == IF n = 0 THEN 0 ELSE values[n] + SumSeq(values, n - 1)
Max(a, b) == IF a > b THEN a ELSE b

RECURSIVE SumOf(_, _, _)
\* sum(day[key] for day in days[:n])
SumOf(days, key, n) ==
    IF n = 0 THEN 0 ELSE Get(days[n], key) + SumOf(days, key, n - 1)

\* simple_predict.py lines 158-168: at least two of the four indicators
IsPoorDay(day) ==
    LET poor_indicators ==
            (IF Get(day, "Sleep_h") < 65 THEN 1 ELSE 0)
          + (IF Get(day, "Stress_level_0_100") > 700 THEN 1 ELSE 0)
          + (IF Get(day, "Steps_and_activity") < 50000 THEN 1 ELSE 0)
          + (IF Get(day, "Screen_time_h") > 80 THEN 1 ELSE 0)
    IN  poor_indicators >= 2

RECURSIVE ConsecutivePoor(_, _)
\* simple_predict.py lines 168-172: consecutive_poor after day n
ConsecutivePoor(days, n) ==
    IF n = 0 THEN 0
    ELSE IF IsPoorDay(days[n]) THEN ConsecutivePoor(days, n - 1) + 1 ELSE 0

\* simple_predict.py lines 155-172 keeping only the run that ends on the last day
ConsecutiveEndingToday(days) == ConsecutivePoor(days, Len(days))

\* simple_predict.py lines 155-172: max_consecutive
MaxConsecutive(days) ==
    IF days = <<>> THEN 0
    ELSE CHOOSE m \in {ConsecutivePoor(days, n) : n \in 1..Len(days)} :
            \A n \in 1..Len(days) : ConsecutivePoor(days, n) <= m

\* simple_predict.py lines 128-207 with the elevated heart rate rule from 3 days
AdjustmentElevatedHrFromThreeDays(history_data, today_data) ==
    LET days == Append(history_data, today_data)
        n == Len(days)
        DaysAbove(key, limit) == Cardinality({i \in 1..n : Get(days[i], key) > limit})
        DaysBelow(key, limit) == Cardinality({i \in 1..n : Get(days[i], key) < limit})
        sleep_debt == Max(0, 70 * n - SumOf(days, "Sleep_h", n))
        high_stress_days == DaysAbove("Stress_level_0_100", 700)
        max_consecutive == MaxConsecutive(days)
        high_screen_days == DaysAbove("Screen_time_h", 90)
        elevated_hr_days == DaysAbove("Average_heart_rate_bpm", 780)
        very_poor_sleep_days == DaysBelow("Sleep_h", 55)
        extreme_stress_days == DaysAbove("Stress_level_0_100", 850)
    IN    (IF sleep_debt > 70 THEN Min(1000, sleep_debt * 10) ELSE 0)
        + (IF high_stress_days >= 3 THEN Min(800, high_stress_days * 200) ELSE 0)
        + (IF max_consecutive >= 3 THEN Min(1500, max_consecutive * 400) ELSE 0)
        + (IF n >= 3 /\ 10 * Get(days[n], "Steps_and_activity")
                           < 6 * Get(days[1], "Steps_and_activity")
           THEN 300 ELSE 0)
        + (IF high_screen_days >= 4 THEN Min(500, high_screen_days * 100) ELSE 0)
        + (IF elevated_hr_days >= 3 THEN Min(500, elevated_hr_days * 100) ELSE 0)
        + (IF very_poor_sleep_days >= 4 THEN Min(800, very_poor_sleep_days * 200) ELSE 0)
        + (IF extreme_stress_days >= 3 THEN Min(1000, extreme_stress_days * 300) ELSE 0)

\* simple_predict.py lines 128-207 without the extreme stress rule
AdjustmentWithoutExtremeStress(history_data, today_data) ==
    LET days == Append(history_data, today_data)
        n == Len(days)
        DaysAbove(key, limit) == Cardinality({i \in 1..n : Get(days[i], key) > limit})
        DaysBelow(key, limit) == Cardinality({i \in 1..n : Get(days[i], key) < limit})
        sleep_debt == Max(0, 70 * n - SumOf(days, "Sleep_h", n))
        high_stress_days == DaysAbove("Stress_level_0_100", 700)
        max_consecutive == MaxConsecutive(days)
        high_screen_days == DaysAbove("Screen_time_h", 90)
        elevated_hr_days == DaysAbove("Average_heart_rate_bpm", 780)
        very_poor_sleep_days == DaysBelow("Sleep_h", 55)
        extreme_stress_days == DaysAbove("Stress_level_0_100", 850)
    IN    (IF sleep_debt > 70 THEN Min(1000, sleep_debt * 10) ELSE 0)
        + (IF high_stress_days >= 3 THEN Min(800, high_stress_days * 200) ELSE 0)
        + (IF max_consecutive >= 3 THEN Min(1500, max_consecutive * 400) ELSE 0)
        + (IF n >= 3 /\ 10 * Get(days[n], "Steps_and_activity")
                           < 6 * Get(days[1], "Steps_and_activity")
           THEN 300 ELSE 0)
        + (IF high_screen_days >= 4 THEN Min(500, high_screen_days * 100) ELSE 0)
        + (IF elevated_hr_days >= 4 THEN Min(500, elevated_hr_days * 100) ELSE 0)
        + (IF very_poor_sleep_days >= 4 THEN Min(800, very_poor_sleep_days * 200) ELSE 0)
        + 0

\* simple_predict.py lines 128-207 with the sleep debt added in full
AdjustmentSleepDebtUncapped(history_data, today_data) ==
    LET days == Append(history_data, today_data)
        n == Len(days)
        DaysAbove(key, limit) == Cardinality({i \in 1..n : Get(days[i], key) > limit})
        DaysBelow(key, limit) == Cardinality({i \in 1..n : Get(days[i], key) < limit})
        sleep_debt == Max(0, 70 * n - SumOf(days, "Sleep_h", n))
        high_stress_days == DaysAbove("Stress_level_0_100", 700)
        max_consecutive == MaxConsecutive(days)
        high_screen_days == DaysAbove("Screen_time_h", 90)
        elevated_hr_days == DaysAbove("Average_heart_rate_bpm", 780)
        very_poor_sleep_days == DaysBelow("Sleep_h", 55)
        extreme_stress_days == DaysAbove("Stress_level_0_100", 850)
    IN    (IF sleep_debt > 70 THEN sleep_debt * 10 ELSE 0)
        + (IF high_stress_days >= 3 THEN Min(800, high_stress_days * 200) ELSE 0)
        + (IF max_consecutive >= 3 THEN Min(1500, max_consecutive * 400) ELSE 0)
        + (IF n >= 3 /\ 10 * Get(days[n], "Steps_and_activity")
                           < 6 * Get(days[1], "Steps_and_activity")
           THEN 300 ELSE 0)
        + (IF high_screen_days >= 4 THEN Min(500, high_screen_days * 100) ELSE 0)
        + (IF elevated_hr_days >= 4 THEN Min(500, elevated_hr_days * 100) ELSE 0)
        + (IF very_poor_sleep_days >= 4 THEN Min(800, very_poor_sleep_days * 200) ELSE 0)
        + (IF extreme_stress_days >= 3 THEN Min(1000, extreme_stress_days * 300) ELSE 0)

\* simple_predict.py lines 128-207
_calculate_temporal_adjustment(history_data, today_data) ==
    LET days == Append(history_data, today_data)
        n == Len(days)
        DaysAbove(key, limit) == Cardinality({i \in 1..n : Get(days[i], key) > limit})
        DaysBelow(key, limit) == Cardinality({i \in 1..n : Get(days[i], key) < limit})
        sleep_debt == Max(0, 70 * n - SumOf(days, "Sleep_h", n))
        high_stress_days == DaysAbove("Stress_level_0_100", 700)
        max_consecutive == MaxConsecutive(days)
        high_screen_days == DaysAbove("Screen_time_h", 90)
        elevated_hr_days == DaysAbove("Average_heart_rate_bpm", 780)
        very_poor_sleep_days == DaysBelow("Sleep_h", 55)
        extreme_stress_days == DaysAbove("Stress_level_0_100", 850)
    IN    (IF sleep_debt > 70 THEN Min(1000, sleep_debt * 10) ELSE 0)
        + (IF high_stress_days >= 3 THEN Min(800, high_stress_days * 200) ELSE 0)
        + (IF max_consecutive >= 3 THEN Min(1500, max_consecutive * 400) ELSE 0)
        + (IF n >= 3 /\ 10 * Get(days[n], "Steps_and_activity")
                           < 6 * Get(days[1], "Steps_and_activity")
           THEN 300 ELSE 0)
        + (IF high_screen_days >= 4 THEN Min(500, high_screen_days * 100) ELSE 0)
        + (IF elevated_hr_days >= 4 THEN Min(500, elevated_hr_days * 100) ELSE 0)
        + (IF very_poor_sleep_days >= 4 THEN Min(800, very_poor_sleep_days * 200) ELSE 0)
        + (IF extreme_stress_days >= 3 THEN Min(1000, extreme_stress_days * 300) ELSE 0)

\* simple_predict.py lines 108-118
RiskLevel(final_probability) ==
    IF final_probability < 2000 THEN "Very Low"
    ELSE IF final_probability < 4000 THEN "Low"
    ELSE IF final_probability < 6000 THEN "Moderate"
    ELSE IF final_probability < 8000 THEN "High"
    ELSE "Very High"

\* simple_predict.py lines 32-125 with the adjustment applied to an empty history too
PredictDaysAlwaysAdjusted(days_data) ==
    IF days_data = <<>>
    THEN [op |-> "predict_migraine", error |-> "ValueError"]
    ELSE LET today_data == days_data[Len(days_data)]
             history_data == SubSeq(days_data, 1, Len(days_data) - 1)
             base == predict(today_data)
         IN  IF ~user_has_model
             THEN NoTrainedModel
             ELSE IF base.error # "none"
             THEN [op |-> "predict_migraine", error |-> base.error]
             ELSE LET base_probability == base.probability
                      adjustment ==
                          IF Len(history_data) >= 0
                          THEN _calculate_temporal_adjustment(history_data, today_data)
                          ELSE 0
                      final_probability ==
                          IF Len(history_data) >= 0
                          THEN Min(10000, Max(0, base_probability + adjustment))
                          ELSE base_probability
                  IN  [op |-> "predict_migraine", error |-> "none",
                       probability |-> final_probability,
                       risk_level |-> RiskLevel(final_probability),
                       model_type |-> "personalized"]

\* simple_predict.py lines 32-125 without min(100.0, ...) at line 86
PredictDaysUnclamped(days_data) ==
    IF days_data = <<>>
    THEN [op |-> "predict_migraine", error |-> "ValueError"]
    ELSE LET today_data == days_data[Len(days_data)]
             history_data == SubSeq(days_data, 1, Len(days_data) - 1)
             base == predict(today_data)
         IN  IF ~user_has_model
             THEN NoTrainedModel
             ELSE IF base.error # "none"
             THEN [op |-> "predict_migraine", error |-> base.error]
             ELSE LET base_probability == base.probability
                      adjustment ==
                          IF Len(history_data) > 0
                          THEN _calculate_temporal_adjustment(history_data, today_data)
                          ELSE 0
                      final_probability ==
                          IF Len(history_data) > 0
                          THEN Max(0, base_probability + adjustment)
                          ELSE base_probability
                  IN  [op |-> "predict_migraine", error |-> "none",
                       probability |-> final_probability,
                       risk_level |-> RiskLevel(final_probability),
                       model_type |-> "personalized"]

\* simple_predict.py lines 32-125: predict_migraine(user_id, days_data=...)
PredictDays(days_data) ==
    IF days_data = <<>>
    THEN [op |-> "predict_migraine", error |-> "ValueError"]
    ELSE LET today_data == days_data[Len(days_data)]
             history_data == SubSeq(days_data, 1, Len(days_data) - 1)
             base == predict(today_data)
         IN  IF ~user_has_model
             THEN NoTrainedModel
             ELSE IF base.error # "none"
             THEN [op |-> "predict_migraine", error |-> base.error]
             ELSE LET base_probability == base.probability
                      adjustment ==
                          IF Len(history_data) > 0
                          THEN _calculate_temporal_adjustment(history_data, today_data)
                          ELSE 0
                      final_probability ==
                          IF Len(history_data) > 0
                          THEN Min(10000, Max(0, base_probability + adjustment))
                          ELSE base_probability
                  IN  [op |-> "predict_migraine", error |-> "none",
                       probability |-> final_probability,
                       risk_level |-> RiskLevel(final_probability),
                       model_type |-> "personalized"]

\* sensorAiGet.py lines 33-34: the features of a database row that are not None
RECURSIVE FormatFrom(_, _)
FormatFrom(row, i) ==
    IF i > Len(feature_names) THEN <<>>
    ELSE LET feature == feature_names[i]
             present == \E j \in 1..Len(row) : row[j].key = feature /\ ~row[j].is_none
         IN  (IF present
              THEN <<[key |-> feature,
                      value |-> row[CHOOSE j \in 1..Len(row) : row[j].key = feature].value]>>
              ELSE <<>>) \o FormatFrom(row, i + 1)

format_sensor_data(row) == FormatFrom(row, 1)

\* sensorAiGet.py lines 36-56
check_migraine_risk(db_rows) ==
    LET days_data == [i \in 1..Len(db_rows) |-> format_sensor_data(db_rows[i])]
    IN  IF db_rows = <<>>
        THEN [op |-> "check_migraine_risk", error |-> "No data found for the last 7 days"]
        ELSE IF ~(\A i \in 1..Len(days_data) : Len(days_data[i]) = Len(feature_names))
        THEN [op |-> "check_migraine_risk", error |-> "Incomplete sensor data found"]
        ELSE LET result == PredictDays(days_data)
             IN  IF result.error = "FileNotFoundError"
                 THEN [op |-> "check_migraine_risk", error |-> "Model not trained",
                       data_points |-> Len(db_rows)]
                 ELSE [op |-> "check_migraine_risk", error |-> result.error,
                       result |-> result]

(***************************************************************************)
(* The validator: data_utils.py DataValidator.validate_input.              *)
(***************************************************************************)
\* data_utils.py line 55, with the bounds excluded
InRangeExclusive(feature, value) ==
    FEATURE_RANGES[feature][1] < value /\ value < FEATURE_RANGES[feature][2]

\* data_utils.py lines 54-55: min_val <= value <= max_val
InRange(feature, value) ==
    FEATURE_RANGES[feature][1] <= value /\ value <= FEATURE_RANGES[feature][2]

RECURSIVE RangeErrors(_, _)
\* data_utils.py lines 52-58: one message per item of a known feature out of range
RangeErrors(items, i) ==
    IF i > Len(items) THEN <<>>
    ELSE (IF items[i].key \in FeatureSet /\ ~InRange(items[i].key, items[i].value)
          THEN <<[kind |-> "outside valid range", feature |-> items[i].key,
                  value |-> items[i].value]>>
          ELSE <<>>) \o RangeErrors(items, i + 1)

\* data_utils.py lines 36-60
validate_input(items) ==
    LET missing == FeatureSet \ Keys(items)
        errors == (IF missing # {}
                   THEN <<[kind |-> "Missing features", features |-> missing]>>
                   ELSE <<>>) \o RangeErrors(items, 1)
    IN  [op |-> "validate_input", is_valid |-> Len(errors) = 0, errors |-> errors]

\* what a deviating feature of an input map can be: absent, just below its
\* minimum, at its maximum, just above its maximum; any other feature is at
\* its minimum
Deviations == {"absent", "below", "top", "above"}

DeviationChoices(bound) ==
    UNION {[dev -> Deviations] : dev \in {d \in SUBSET FeatureSet : Cardinality(d) <= bound}}

DeviatingValue(feature, how) ==
    IF how = "below" THEN FEATURE_RANGES[feature][1] - 1
    ELSE IF how = "top" THEN FEATURE_RANGES[feature][2]
    ELSE IF how = "above" THEN FEATURE_RANGES[feature][2] + 1
    ELSE FEATURE_RANGES[feature][1]

RECURSIVE ItemsFrom(_, _)
\* the map in the insertion order of feature_names, absent features left out
ItemsFrom(choice, i) ==
    IF i > Len(feature_names) THEN <<>>
    ELSE LET feature == feature_names[i]
             how == IF feature \in DOMAIN choice THEN choice[feature] ELSE "bottom"
         IN  (IF how = "absent" THEN <<>>
              ELSE <<[key |-> feature, value |-> DeviatingValue(feature, how)]>>)
             \o ItemsFrom(choice, i + 1)

\* a key the validator does not know
ExtraItem == [key |-> "UserID", value |-> 1]

ValidateInputs ==
    {ItemsFrom(c, 1) : c \in DeviationChoices(MaxDeviations)}
    \cup {Append(ItemsFrom(c, 1), ExtraItem) : c \in DeviationChoices(MaxDeviations)}

InitValidate ==
    /\ InitTrained
    /\ InitIdle
    /\ sensorBase = FALSE
    /\ surveyBase = FALSE
    /\ surveyUser = {}
    /\ data \in ValidateInputs
    /\ data2 = data
    /\ swaps = 0
    /\ rows = <<>>
    /\ InitNoRequest

\* DataValidator.validate_input(data): the dict is only read
ValidateInput ==
    /\ ret' = validate_input(data)
    /\ UNCHANGED <<storeVars, clock, runs, returned, writerVars, trainerVars,
                   predictorVars, deployVars, inputVars>>

\* UserModelManager.predict(user_id, data): scoring does not call the validator
PredictInput ==
    /\ ret' = predict(data)
    /\ UNCHANGED <<storeVars, clock, runs, returned, writerVars, trainerVars,
                   predictorVars, deployVars, inputVars>>

NextValidate == ValidateInput \/ PredictInput

SpecValidate == InitValidate /\ [][NextValidate]_vars

Complete(items) == FeatureSet \subseteq Keys(items)

AllInRange(items) ==
    \A i \in 1..Len(items) :
        items[i].key \in FeatureSet =>
            /\ items[i].value >= FEATURE_RANGES[items[i].key][1]
            /\ items[i].value <= FEATURE_RANGES[items[i].key][2]

\* C10: validate_input answers (True, []) for a map that has every required
\* key with a value inside its inclusive range; for a map missing a required
\* key it answers False and names the key in a message; for a present key
\* with a value outside its inclusive range it answers False and names the
\* key in a message; and the call leaves its input as it was.
C10_ValidateInput ==
    [][ret'.op = "validate_input"
        => /\ data' = data
           /\ (Complete(data) /\ AllInRange(data))
                  => (ret'.is_valid /\ ret'.errors = <<>>)
           /\ \A k \in FeatureSet \ Keys(data) :
                  /\ ~ret'.is_valid
                  /\ \E e \in 1..Len(ret'.errors) :
                         /\ ret'.errors[e].kind = "Missing features"
                         /\ k \in ret'.errors[e].features
           /\ \A i \in 1..Len(data) :
                  (data[i].key \in FeatureSet
                     /\ (\/ data[i].value < FEATURE_RANGES[data[i].key][1]
                         \/ data[i].value > FEATURE_RANGES[data[i].key][2]))
                  => /\ ~ret'.is_valid
                     /\ \E e \in 1..Len(ret'.errors) :
                            /\ ret'.errors[e].kind = "outside valid range"
                            /\ ret'.errors[e].feature = data[i].key]_vars

\* C10 witness: a map with a key missing and a value out of range was refused
\* with both messages.
C10_Witness ==
    /\ ret.op = "validate_input"
    /\ ~ret.is_valid
    /\ Len(ret.errors) = 2
    /\ ~Complete(data)
    /\ ~AllInRange(data)

\* C10 witness of the accepting case: a complete map with a value on the top
\* bound of its range was accepted.
C10_WitnessValid ==
    /\ ret.op = "validate_input"
    /\ ret.is_valid
    /\ \E i \in 1..Len(data) :
           data[i].key \in FeatureSet /\ data[i].value = FEATURE_RANGES[data[i].key][2]

(***************************************************************************)
(* Live scoring of the rows the database returns.                          *)
(***************************************************************************)
RECURSIVE RawRowFrom(_, _)
\* a daily_sensor row: every feature column is there, a column may be None
RawRowFrom(choice, i) ==
    IF i > Len(feature_names) THEN <<>>
    ELSE LET feature == feature_names[i]
             how == IF feature \in DOMAIN choice THEN choice[feature] ELSE "bottom"
         IN  <<[key |-> feature, value |-> DeviatingValue(feature, how),
                is_none |-> how = "absent"]>> \o RawRowFrom(choice, i + 1)

RawRows == {RawRowFrom(c, 1) : c \in DeviationChoices(MaxRowDeviations)}

\* a row with every column at the bottom of its range
BottomRow == RawRowFrom(<<>>, 1)

\* the rows of a request, oldest first: at most one day deviates
RowLists ==
    {<<>>} \cup
    UNION {{[i \in 1..n |-> IF i = d THEN r ELSE BottomRow] : r \in RawRows, d \in 1..n}
           : n \in 1..MaxDays}

InitLive ==
    /\ \/ InitTrained
       \/ InitStored(StoredRows) /\ InitUntrained
    /\ InitIdle
    /\ sensorBase = FALSE
    /\ surveyBase = FALSE
    /\ surveyUser = {}
    /\ data = <<>>
    /\ data2 = <<>>
    /\ swaps = 0
    /\ rows \in RowLists
    /\ InitNoRequest

\* sensorAiGet.py check_migraine_risk over the rows of the last 7 days
CheckMigraineRisk ==
    /\ ret' = check_migraine_risk(rows)
    /\ UNCHANGED <<storeVars, clock, runs, returned, writerVars, trainerVars,
                   predictorVars, deployVars, inputVars>>

\* UserModelManager.predict on today's formatted vector alone
PredictToday ==
    /\ rows # <<>>
    /\ ret' = predict(format_sensor_data(rows[Len(rows)]))
    /\ UNCHANGED <<storeVars, clock, runs, returned, writerVars, trainerVars,
                   predictorVars, deployVars, inputVars>>

NextLive == CheckMigraineRisk \/ PredictToday

SpecLive == InitLive /\ [][NextLive]_vars

\* some day of the request breaks the feature contract: a required key has
\* no value, or a value lies outside its declared range
BreaksContract(db_rows) ==
    \E d \in 1..Len(db_rows) :
        \E j \in 1..Len(db_rows[d]) :
            \/ db_rows[d][j].is_none
            \/ db_rows[d][j].value < FEATURE_RANGES[db_rows[d][j].key][1]
            \/ db_rows[d][j].value > FEATURE_RANGES[db_rows[d][j].key][2]

\* C9: a request in which some day's vector misses a required key or holds an
\* out-of-range value ends in an error outcome, never in a probability.
C9_RejectsContractBreach ==
    (ret.op \in {"check_migraine_risk", "predict"} /\ BreaksContract(rows))
        => ret.error # "none"

(***************************************************************************)
(* One classifier output through the smoothing of UserModelManager.predict *)
(* and through every place that labels a probability.  A classifier output *)
(* is in thousandths, a percentage in hundredths of a percent.             *)
(***************************************************************************)
\* largest predict_proba output: 1.0
MaxRawProba == 1000

\* predict.py lines 96-113: MigrainePredictionSystem.predict_from_dict
RiskLevelFromDict(percentage) ==
    IF percentage < 2000 THEN "Very Low"
    ELSE IF percentage < 4000 THEN "Low"
    ELSE IF percentage < 6000 THEN "Moderate"
    ELSE IF percentage < 8000 THEN "High"
    ELSE "Very High"

\* surveyModelGet.py line 182
SurveyRiskLevel(probability_percentage) ==
    IF probability_percentage < 4000 THEN "low"
    ELSE IF probability_percentage < 6000 THEN "medium"
    ELSE "high"

InitScalar ==
    /\ InitTrained
    /\ InitIdle
    /\ sensorBase = FALSE
    /\ surveyBase = FALSE
    /\ surveyUser = {}
    /\ data = <<>>
    /\ data2 = <<>>
    /\ swaps = 0
    /\ rows = <<>>
    /\ classifier_proba \in 0..MaxRawProba
    /\ surveyInput = NoSurveyInput
    /\ env = NoRequest
    /\ InitNoJobs

\* user_model_manager.py lines 258-271: from raw_proba to the returned probability
SmoothProba ==
    /\ ret' = [op |-> "smooth", error |-> "none", raw_proba |-> classifier_proba,
               probability |-> Smooth(classifier_proba)]
    /\ UNCHANGED <<storeVars, clock, runs, returned, writerVars, trainerVars,
                   predictorVars, deployVars, inputVars>>

\* the three places that label a probability, on the same percentage
LabelProba ==
    /\ ret' = [op |-> "risk_level", error |-> "none",
               percentage |-> classifier_proba * 10,
               predict_migraine |-> RiskLevel(classifier_proba * 10),
               predict_from_dict |-> RiskLevelFromDict(classifier_proba * 10),
               check_migraine_risk_from_survey |-> SurveyRiskLevel(classifier_proba * 10)]
    /\ UNCHANGED <<storeVars, clock, runs, returned, writerVars, trainerVars,
                   predictorVars, deployVars, inputVars>>

NextScalar == SmoothProba \/ LabelProba

SpecScalar == InitScalar /\ [][NextScalar]_vars

\* C11: for every raw classifier probability in [0,1] the probability that
\* UserModelManager.predict returns lies in [5,95] percent, so it is never 0
\* and never 100.
C11_SmoothedWithinBounds ==
    ret.op = "smooth"
        => /\ ret.probability >= 500
           /\ ret.probability <= 9500
           /\ ret.probability # 0
           /\ ret.probability # 10000

\* C11 witness: the classifier output 1.0 was smoothed to 95 percent.
C11_Witness ==
    /\ ret.op = "smooth"
    /\ ret.raw_proba = MaxRawProba
    /\ ret.probability = 9500

\* C20: every place that labels a probability gives the same probability the
\* same one of the five labels, by the thresholds <20, <40, <60, <80, else.
C20_OneRiskDiscretization ==
    ret.op = "risk_level"
        => /\ ret.predict_migraine = ret.predict_from_dict
           /\ ret.predict_from_dict = ret.check_migraine_risk_from_survey
           /\ ret.predict_migraine =
                  (IF ret.percentage < 2000 THEN "Very Low"
                   ELSE IF ret.percentage < 4000 THEN "Low"
                   ELSE IF ret.percentage < 6000 THEN "Moderate"
                   ELSE IF ret.percentage < 8000 THEN "High"
                   ELSE "Very High")

(***************************************************************************)
(* Requests over one to seven days of sensor data: the temporal adjustment *)
(* and the final probability of predict_migraine.                          *)
(***************************************************************************)
\* sensorAiGet.py lines 21-31: the rows of the last 7 days
LastDays == 7

\* the kinds of day a request is built from; the features no rule of the
\* adjustment reads are those of simple_example1.py
DayKinds ==
    [excellent |->
        [Screen_time_h |-> 40, Average_heart_rate_bpm |-> 630,
         Steps_and_activity |-> 110000, Sleep_h |-> 80, Stress_level_0_100 |-> 200],
     excellent_active |->
        [Screen_time_h |-> 35, Average_heart_rate_bpm |-> 800,
         Steps_and_activity |-> 200000, Sleep_h |-> 85, Stress_level_0_100 |-> 180],
     awful |->
        [Screen_time_h |-> 100, Average_heart_rate_bpm |-> 850,
         Steps_and_activity |-> 20000, Sleep_h |-> 50, Stress_level_0_100 |-> 900],
     short_sleep |->
        [Screen_time_h |-> 35, Average_heart_rate_bpm |-> 630,
         Steps_and_activity |-> 120000, Sleep_h |-> 54, Stress_level_0_100 |-> 0],
     stressed |->
        [Screen_time_h |-> 35, Average_heart_rate_bpm |-> 630,
         Steps_and_activity |-> 120000, Sleep_h |-> 240, Stress_level_0_100 |-> 860],
     bad_sensor |->
        [Screen_time_h |-> 35, Average_heart_rate_bpm |-> 630,
         Steps_and_activity |-> 120000, Sleep_h |-> -1, Stress_level_0_100 |-> 0]]

DayValue(kind, feature) ==
    IF feature \in DOMAIN DayKinds[kind] THEN DayKinds[kind][feature]
    ELSE IF feature = "Respiration_rate_breaths_min" THEN 120
    ELSE IF feature = "Saa_Temperature_average_C" THEN 210
    ELSE IF feature = "Saa_Air_quality_0_5" THEN 10
    ELSE IF feature = "Received_Condition_0_3" THEN 0
    ELSE 10160

\* the daily_sensor row of a day of the kind
DayRow(kind) ==
    [i \in 1..Len(feature_names) |->
        [key |-> feature_names[i], value |-> DayValue(kind, feature_names[i]),
         is_none |-> FALSE]]

\* one to seven days, oldest first, in at most MaxBlocks stretches of one kind
DaysLists ==
    UNION {{[i \in 1..n |-> DayRow(kinds[i])] :
              kinds \in {k \in [1..n -> DOMAIN DayKinds] :
                            Cardinality({i \in 1..(n - 1) : k[i] # k[i + 1]}) < MaxBlocks}}
           : n \in 1..LastDays}

InitTemporal ==
    /\ InitTrained
    /\ InitIdle
    /\ sensorBase = FALSE
    /\ surveyBase = FALSE
    /\ surveyUser = {}
    /\ data = <<>>
    /\ data2 = <<>>
    /\ swaps = 0
    /\ rows \in DaysLists
    /\ InitNoRequest

\* the days of the request as predict_migraine receives them
DaysData == [i \in 1..Len(rows) |-> format_sensor_data(rows[i])]
TodayData == DaysData[Len(rows)]
HistoryData == SubSeq(DaysData, 1, Len(rows) - 1)

\* simple_predict.py lines 128-207 on the history and today of the request
CalculateTemporalAdjustment ==
    /\ ret' = [op |-> "_calculate_temporal_adjustment", error |-> "none",
               adjustment |-> _calculate_temporal_adjustment(HistoryData, TodayData)]
    /\ UNCHANGED <<storeVars, clock, runs, returned, writerVars, trainerVars,
                   predictorVars, deployVars, inputVars>>

\* simple_predict.py lines 32-125: predict_migraine(user_id, days_data=days_data)
PredictMigraineDays ==
    /\ ret' = PredictDays(DaysData)
    /\ UNCHANGED <<storeVars, clock, runs, returned, writerVars, trainerVars,
                   predictorVars, deployVars, inputVars>>

NextTemporal == CalculateTemporalAdjustment \/ PredictMigraineDays

SpecTemporal == InitTemporal /\ [][NextTemporal]_vars

\* min(100.0, max(0.0, x)) of simple_predict.py line 86, written out
Clamp(x) == IF x < 0 THEN 0 ELSE IF x > 10000 THEN 10000 ELSE x

\* C12: with an empty history (one day of data) predict_migraine returns the
\* base probability of the model unchanged, whatever today's vector holds.
C12_EmptyHistoryNoAdjustment ==
    (ret.op = "predict_migraine" /\ ret.error = "none" /\ Len(rows) = 1)
        => ret.probability = predict(TodayData).probability

\* C12 witness: a single day whose values alone would trip a rule of the
\* adjustment (a negative sleep reading) was scored.
C12_Witness ==
    /\ ret.op = "predict_migraine"
    /\ ret.error = "none"
    /\ Len(rows) = 1
    /\ Get(TodayData, "Sleep_h") < 0
    /\ ret.probability = predict(TodayData).probability

\* C13: the probability predict_migraine returns is the base probability plus
\* the adjustment (0 for an empty history), clamped to [0,100], and so lies in
\* [0,100].
C13_FinalProbabilityClamped ==
    (ret.op = "predict_migraine" /\ ret.error = "none")
        => LET base_probability == predict(TodayData).probability
               adjustment == IF Len(rows) > 1
                             THEN _calculate_temporal_adjustment(HistoryData, TodayData)
                             ELSE 0
           IN  /\ ret.probability = Clamp(base_probability + adjustment)
               /\ ret.probability >= 0
               /\ ret.probability <= 10000

\* C13 witness: base probability plus adjustment exceeded 100 and 100 was
\* returned.
C13_Witness ==
    /\ ret.op = "predict_migraine"
    /\ ret.error = "none"
    /\ Len(rows) > 1
    /\ predict(TodayData).probability
          + _calculate_temporal_adjustment(HistoryData, TodayData) > 10000
    /\ ret.probability = 10000

\* every day of the request has sleep >= 8 h, stress <= 20, steps >= 11000 and
\* screen time <= 4 h
UniformlyExcellent ==
    \A i \in 1..Len(rows) :
        /\ Get(DaysData[i], "Sleep_h") >= 80
        /\ Get(DaysData[i], "Stress_level_0_100") <= 200
        /\ Get(DaysData[i], "Steps_and_activity") >= 110000
        /\ Get(DaysData[i], "Screen_time_h") <= 40

EveryDayInRange ==
    \A i \in 1..Len(rows) : \A k \in FeatureSet :
        /\ Get(DaysData[i], k) >= FEATURE_RANGES[k][1]
        /\ Get(DaysData[i], k) <= FEATURE_RANGES[k][2]

DaysWhere(Test(_)) == Cardinality({i \in 1..Len(rows) : Test(DaysData[i])})

\* C14 as stated: 7 days of uniformly excellent sleep, stress, steps and
\* screen time, the other features anywhere in range, get adjustment 0.
C14_ExcellentWeekNoAdjustment ==
    (ret.op = "_calculate_temporal_adjustment" /\ Len(rows) = LastDays
        /\ UniformlyExcellent /\ EveryDayInRange)
        => ret.adjustment = 0

\* C14 amended: 7 uniformly excellent in-range days get adjustment 0 when,
\* besides, the heart rate is above 78 on fewer than 4 days and today's steps
\* are at least 0.6 times the oldest day's steps.
C14_ExcellentCalmWeekNoAdjustment ==
    (ret.op = "_calculate_temporal_adjustment" /\ Len(rows) = LastDays
        /\ UniformlyExcellent /\ EveryDayInRange
        /\ LET Elevated(day) == Get(day, "Average_heart_rate_bpm") > 780
           IN  DaysWhere(Elevated) < 4
        /\ 10 * Get(TodayData, "Steps_and_activity")
              >= 6 * Get(DaysData[1], "Steps_and_activity"))
        => ret.adjustment = 0

\* C14 witness: an excellent week with three days of heart rate above 78 and
\* no drop of activity got adjustment 0.
C14_Witness ==
    /\ ret.op = "_calculate_temporal_adjustment"
    /\ Len(rows) = LastDays
    /\ UniformlyExcellent
    /\ EveryDayInRange
    /\ LET Elevated(day) == Get(day, "Average_heart_rate_bpm") > 780
       IN  DaysWhere(Elevated) = 3
    /\ 10 * Get(TodayData, "Steps_and_activity")
          >= 6 * Get(DaysData[1], "Steps_and_activity")
    /\ ret.adjustment = 0

\* C15: 7 in-range days with stress above 85 on at least 3 days and sleep
\* below 5.5 h on at least 4 days get an adjustment of at least 18.
C15_StressedSleeplessWeek ==
    (ret.op = "_calculate_temporal_adjustment" /\ Len(rows) = LastDays
        /\ EveryDayInRange
        /\ LET Extreme(day) == Get(day, "Stress_level_0_100") > 850
               Sleepless(day) == Get(day, "Sleep_h") < 55
           IN  DaysWhere(Extreme) >= 3 /\ DaysWhere(Sleepless) >= 4)
        => ret.adjustment >= 1800

\* C15 witness: exactly 3 days of stress above 85 followed by exactly 4 other
\* days of sleep below 5.5 h got the adjustment 6 + 8 + 9 = 23.
C15_Witness ==
    /\ ret.op = "_calculate_temporal_adjustment"
    /\ Len(rows) = LastDays
    /\ EveryDayInRange
    /\ LET Extreme(day) == Get(day, "Stress_level_0_100") > 850
           Sleepless(day) == Get(day, "Sleep_h") < 55
       IN  DaysWhere(Extreme) = 3 /\ DaysWhere(Sleepless) = 4
    /\ ret.adjustment = 2300

(***************************************************************************)
(* The survey stream and the router that fuses the two streams:            *)
(* surveyModelGet.py check_migraine_risk_from_survey and routes.py         *)
(* get_migraine_data.  An optional value is a sequence: <<>> is None.      *)
(***************************************************************************)
\* the user of the request
RequestUser == 1

\* surveyModelGet.py line 136: at least 7 days of survey data
SurveyDays == 7

\* inference.py line 174: contributions[:top_k], top_k = 5
TopK == 5

\* surveyModelGet.py lines 120-201
\* surveyModelGet.py lines 120-201 predicting from any number of days above 0
SurveyFromAnyDays(user_id) ==
    IF surveyInput.raises
    THEN [op |-> "check_migraine_risk_from_survey", error |-> "Prediction failed"]
    ELSE IF surveyInput.days = 0
    THEN [op |-> "check_migraine_risk_from_survey",
          error |-> "No survey data found for the last 7 days"]
    ELSE IF load_model(user_id).error = "FileNotFoundError"
    THEN [op |-> "check_migraine_risk_from_survey",
          error |-> "Model not found or not trained"]
    ELSE LET probability_percentage == classifier_proba * 10
         IN  [op |-> "check_migraine_risk_from_survey", error |-> "none",
              probability |-> probability_percentage,
              risk_level |-> SurveyRiskLevel(probability_percentage),
              top_features |-> SubSeq(surveyInput.top_features, 1,
                                      Min(TopK, Len(surveyInput.top_features))),
              model_type |-> "survey_model",
              data_points |-> surveyInput.days]

check_migraine_risk_from_survey(user_id) ==
    IF surveyInput.raises
    THEN [op |-> "check_migraine_risk_from_survey", error |-> "Prediction failed"]
    ELSE IF surveyInput.days = 0
    THEN [op |-> "check_migraine_risk_from_survey",
          error |-> "No survey data found for the last 7 days"]
    ELSE IF surveyInput.days < SurveyDays
    THEN [op |-> "check_migraine_risk_from_survey", error |-> "Insufficient data",
          data_points |-> surveyInput.days]
    ELSE IF load_model(user_id).error = "FileNotFoundError"
    THEN [op |-> "check_migraine_risk_from_survey",
          error |-> "Model not found or not trained"]
    ELSE LET probability_percentage == classifier_proba * 10
         IN  [op |-> "check_migraine_risk_from_survey", error |-> "none",
              probability |-> probability_percentage,
              risk_level |-> SurveyRiskLevel(probability_percentage),
              top_features |-> SubSeq(surveyInput.top_features, 1,
                                      Min(TopK, Len(surveyInput.top_features))),
              model_type |-> "survey_model",
              data_points |-> surveyInput.days]

\* the sensor stream as the router calls it: sensorAiGet.py lines 21-56, where
\* a failing database query raises out of check_migraine_risk
SensorStream ==
    IF env.db_raises
    THEN [op |-> "check_migraine_risk", error |-> "Exception"]
    ELSE check_migraine_risk(rows)

\* routes.py lines 263-292: feature_to_trigger_name on the names of the model
feature_to_trigger_name(feature_name) ==
    IF feature_name = "stress" THEN "Stress"
    ELSE IF feature_name = "sleep_deprivation" THEN "Sleep deprivation"
    ELSE IF feature_name = "user_stress_mean" THEN "Stress"
    ELSE IF feature_name = "age" THEN "Age"
    ELSE feature_name

\* routes.py line 378 dividing by 2 whatever the number of probabilities
AverageOverBothStreams(probabilities) ==
    [num |-> SumSeq(probabilities, Len(probabilities)), den |-> 2]

\* routes.py line 378: sum(probabilities) / len(probabilities), as a fraction
Average(probabilities) ==
    [num |-> SumSeq(probabilities, Len(probabilities)), den |-> Len(probabilities)]

\* routes.py line 366 keeping the last error only
ErrorMessageLastOnly(errors) ==
    IF errors # <<>>
    THEN [text |-> "No predictions available. ", joined |-> <<errors[Len(errors)]>>]
    ELSE [text |-> "Both prediction systems failed.", joined |-> <<>>]

\* routes.py line 366: "No predictions available. " + "; ".join(errors), or
\* "Both prediction systems failed." for no errors
ErrorMessage(errors) ==
    IF errors # <<>>
    THEN [text |-> "No predictions available. ", joined |-> errors]
    ELSE [text |-> "Both prediction systems failed.", joined |-> <<>>]

\* routes.py lines 328-357: reason2 from the survey result
SurveyReason2(survey_result) ==
    LET survey_top_features == survey_result.top_features
    IN  IF Len(survey_top_features) >= 2
        THEN IF survey_top_features[2] # ""
             THEN <<feature_to_trigger_name(survey_top_features[2])>>
             ELSE <<>>
        ELSE IF Len(survey_top_features) >= 1
        THEN IF survey_top_features[1] # ""
             THEN <<feature_to_trigger_name(survey_top_features[1])>>
             ELSE <<>>
        ELSE <<>>

\* routes.py lines 220-397
get_migraine_data ==
    IF ~env.authorized
    THEN [op |-> "get_migraine_data", error |-> "HTTPException", status_code |-> 403]
    ELSE IF ~env.sensor /\ ~env.survey
    THEN [op |-> "get_migraine_data", error |-> "HTTPException", status_code |-> 500]
    ELSE IF ~env.valid_id
    THEN [op |-> "get_migraine_data", error |-> "HTTPException", status_code |-> 400]
    ELSE
    LET sensor_result == SensorStream
        survey_result == check_migraine_risk_from_survey(RequestUser)
        sensor_ok == env.sensor /\ sensor_result.error = "none"
        survey_ok == env.survey /\ survey_result.error = "none"
        probabilities ==
            (IF sensor_ok THEN <<sensor_result.result.probability>> ELSE <<>>)
            \o (IF survey_ok THEN <<survey_result.probability>> ELSE <<>>)
        errors ==
            (IF env.sensor /\ ~sensor_ok
             THEN <<[stream |-> "Sensor model", message |-> sensor_result.error]>>
             ELSE <<>>)
            \o (IF env.survey /\ ~survey_ok
                THEN <<[stream |-> "Survey model", message |-> survey_result.error]>>
                ELSE <<>>)
        \* sensor_result.get('reason1'): the sensor result has no such key
        reason1 == <<>>
        reason2 == IF survey_ok THEN SurveyReason2(survey_result) ELSE <<>>
    IN  IF Len(probabilities) = 0
        THEN [op |-> "get_migraine_data", error |-> "none", status_code |-> 200,
              success |-> FALSE, probability |-> <<>>, reason1 |-> <<>>,
              reason2 |-> <<>>, message |-> <<ErrorMessage(errors)>>]
        ELSE [op |-> "get_migraine_data", error |-> "none", status_code |-> 200,
              success |-> TRUE, probability |-> <<Average(probabilities)>>,
              reason1 |-> reason1, reason2 |-> reason2, message |-> <<>>]

\* names the survey model ranks; the last has no entry in feature_mapping
SurveyFeatureNames == {"stress", "sleep_deprivation", "age"}

\* ranked lists of distinct factors, best first
RankedFeatures ==
    UNION {{f \in [1..n -> SurveyFeatureNames] : \A i, j \in 1..n : f[i] = f[j] => i = j}
           : n \in 0..MaxTopFeatures}

SurveyInputs ==
    [days : {0, SurveyDays - 1, SurveyDays}, top_features : RankedFeatures,
     raises : BOOLEAN]

\* the caller and the imports of a request: all well, or one thing wrong, or
\* neither stream imported
Requests ==
    {NoRequest,
     [NoRequest EXCEPT !.authorized = FALSE],
     [NoRequest EXCEPT !.valid_id = FALSE],
     [NoRequest EXCEPT !.sensor = FALSE],
     [NoRequest EXCEPT !.survey = FALSE],
     [NoRequest EXCEPT !.db_raises = TRUE],
     [NoRequest EXCEPT !.sensor = FALSE, !.survey = FALSE]}

\* the sensor rows of a request: none, one or two complete days, a day with a
\* column that is None
FusionRows ==
    {<<>>, <<BottomRow>>, <<BottomRow, BottomRow>>,
     <<RawRowFrom([Sleep_h |-> "absent"], 1)>>}

\* outputs of the survey classifier: 0, 0.62 and 1
SurveyProbas == {0, 620, MaxRawProba}

InitFusion ==
    /\ \/ InitTrained
       \/ InitStored(StoredRows) /\ InitUntrained
    /\ InitIdle
    /\ sensorBase = FALSE
    /\ surveyBase \in BOOLEAN
    /\ surveyUser = {}
    /\ data = <<>>
    /\ data2 = <<>>
    /\ swaps = 0
    /\ rows \in FusionRows
    /\ classifier_proba \in SurveyProbas
    /\ surveyInput \in SurveyInputs
    /\ env \in Requests
    /\ InitNoJobs

\* GET /get-migraine-data/{user_id}
GetMigraineData ==
    /\ ret' = get_migraine_data
    /\ UNCHANGED <<storeVars, clock, runs, returned, writerVars, trainerVars,
                   predictorVars, deployVars, inputVars>>

\* the survey stream on its own
CheckMigraineRiskFromSurvey ==
    /\ ret' = check_migraine_risk_from_survey(RequestUser)
    /\ UNCHANGED <<storeVars, clock, runs, returned, writerVars, trainerVars,
                   predictorVars, deployVars, inputVars>>

NextFusion == GetMigraineData \/ CheckMigraineRiskFromSurvey

SpecFusion == InitFusion /\ [][NextFusion]_vars

\* the request reached the streams: the caller is the user, a stream is
\* imported, the id is a number
Served == ret.op = "get_migraine_data" /\ ret.error = "none"

\* a stream was called and returned a probability
SensorSucceeds == env.sensor /\ SensorStream.error = "none"
SurveySucceeds == env.survey /\ check_migraine_risk_from_survey(RequestUser).error = "none"

\* a stream was called and failed
SensorFails == env.sensor /\ SensorStream.error # "none"
SurveyFails == env.survey /\ check_migraine_risk_from_survey(RequestUser).error # "none"

SensorProbability == SensorStream.result.probability
SurveyProbability == check_migraine_risk_from_survey(RequestUser).probability

C16_WitnessSingle ==
    /\ Served
    /\ ~SensorSucceeds
    /\ SurveySucceeds
    /\ ret.success
    /\ ret.probability[1].num = ret.probability[1].den * SurveyProbability

\* C17: when neither stream yields a probability the response is a failure
\* without probability, reason1 and reason2, and its error text contains the
\* error message of every stream that was called and failed.
C17_FailureCarriesEveryError ==
    (Served /\ ~SensorSucceeds /\ ~SurveySucceeds) =>
        /\ ~ret.success
        /\ ret.probability = <<>>
        /\ ret.reason1 = <<>>
        /\ ret.reason2 = <<>>
        /\ Len(ret.message) = 1
        /\ SensorFails =>
              \E i \in 1..Len(ret.message[1].joined) :
                  /\ ret.message[1].joined[i].stream = "Sensor model"
                  /\ ret.message[1].joined[i].message = SensorStream.error
        /\ SurveyFails =>
              \E i \in 1..Len(ret.message[1].joined) :
                  /\ ret.message[1].joined[i].stream = "Survey model"
                  /\ ret.message[1].joined[i].message
                       = check_migraine_risk_from_survey(RequestUser).error

\* C17 witness: both streams were called and failed, and the failure response
\* carries two messages.
C17_Witness ==
    /\ Served
    /\ SensorFails
    /\ SurveyFails
    /\ ~ret.success
    /\ Len(ret.message[1].joined) = 2

\* C18: a failing stream does not abort the other.  When the survey stream
\* fails and the sensor stream succeeds with probability P the response
\* succeeds with probability P, reason2 is absent and reason1 is present; when
\* the sensor stream fails and the survey stream succeeds the response
\* succeeds with the survey stream's probability.
C18_StreamsIndependent ==
    Served =>
        /\ (SensorSucceeds /\ SurveyFails)
              => /\ ret.success
                 /\ ret.probability = <<[num |-> SensorProbability, den |-> 1]>>
                 /\ ret.reason2 = <<>>
                 /\ ret.reason1 # <<>>
        /\ (SensorFails /\ SurveySucceeds)
              => /\ ret.success
                 /\ ret.probability = <<[num |-> SurveyProbability, den |-> 1]>>

\* C19: when the survey stream succeeds with a non-empty ranked factor list,
\* reason2 is the readable name of its first factor.
C19_Reason2IsTopFactor ==
    (Served /\ SurveySucceeds
        /\ check_migraine_risk_from_survey(RequestUser).top_features # <<>>)
        => ret.reason2
             = <<feature_to_trigger_name(
                    check_migraine_risk_from_survey(RequestUser).top_features[1])>>

\* C21: each stream accepts a request over any 1 to 7 days of data; neither
\* rejects it merely because fewer than 7 days are available.
C21_OneToSevenDaysAccepted ==
    /\ (ret.op = "check_migraine_risk_from_survey"
          /\ surveyInput.days \in 1..SurveyDays
          /\ ~surveyInput.raises
          /\ load_model(RequestUser).error = "none")
         => ret.error = "none"
    /\ (Served /\ env.sensor /\ ~env.db_raises /\ user_has_model
          /\ Len(rows) \in 1..LastDays
          /\ \A i \in 1..Len(rows) : \A j \in 1..Len(rows[i]) : ~rows[i][j].is_none)
         => ret.success

\* C21 (amended): the sensor stream accepts a request over any 1 to 7 days of
\* data; the survey stream predicts from 7 days and answers a request over 1
\* to 6 days with 'Insufficient data' and the number of days found.
C21_SensorOneToSevenSurveySeven ==
    /\ (ret.op = "check_migraine_risk_from_survey"
          /\ surveyInput.days \in 1..(SurveyDays - 1)
          /\ ~surveyInput.raises)
         => (ret.error = "Insufficient data" /\ ret.data_points = surveyInput.days)
    /\ (ret.op = "check_migraine_risk_from_survey"
          /\ surveyInput.days = SurveyDays
          /\ ~surveyInput.raises
          /\ load_model(RequestUser).error = "none")
         => ret.error = "none"
    /\ (Served /\ env.sensor /\ ~env.db_raises /\ user_has_model
          /\ Len(rows) \in 1..LastDays
          /\ \A i \in 1..Len(rows) : \A j \in 1..Len(rows[i]) : ~rows[i][j].is_none)
         => ret.success

C21_Witness ==
    /\ ret.op = "check_migraine_risk_from_survey"
    /\ surveyInput.days = SurveyDays - 1
    /\ ~surveyInput.raises
    /\ ret.error = "Insufficient data"

(***************************************************************************)
(* Prediction requests served side by side.  check_migraine_risk_from_     *)
(* survey replaces inference.MODEL_PATH for the time of its prediction.    *)
(***************************************************************************)
\* surveyModelGet.py line 160: model_path_absolute
ModelPathAbsolute == "<backend>/survey_model/models/best_model.pkl"

InitPatch ==
    /\ InitTrained
    /\ InitIdle
    /\ sensorBase = FALSE
    /\ surveyBase \in BOOLEAN
    /\ surveyUser = {}
    /\ data = <<>>
    /\ data2 = <<>>
    /\ swaps = 0
    /\ rows \in FusionRows
    /\ classifier_proba = 620
    /\ surveyInput \in SurveyInputs
    /\ env = NoRequest
    /\ InitNoJobs

\* surveyModelGet.py lines 129-164: the early returns, or the module's path is
\* remembered in original_model_path
SurveyBegin(c) ==
    /\ survey_pc[c].pc = "idle"
    /\ IF surveyInput.raises \/ surveyInput.days < SurveyDays
       THEN /\ ret' = check_migraine_risk_from_survey(RequestUser)
            /\ UNCHANGED survey_pc
       ELSE /\ survey_pc' = [survey_pc EXCEPT
                                ![c] = [pc |-> "saved", original_model_path |-> MODEL_PATH]]
            /\ UNCHANGED ret
    /\ UNCHANGED <<storeVars, clock, runs, returned, writerVars, trainerVars,
                   predictorVars, deployVars, data, data2, swaps, rows, requestVars,
                   MODEL_PATH, baseRows, dbRows>>

\* surveyModelGet.py line 165: inference_module.MODEL_PATH = model_path_absolute
SurveyPatch(c) ==
    /\ survey_pc[c].pc = "saved"
    /\ MODEL_PATH' = ModelPathAbsolute
    /\ survey_pc' = [survey_pc EXCEPT ![c].pc = "patched"]
    /\ UNCHANGED <<storeVars, clock, runs, returned, ret, writerVars, trainerVars,
                   predictorVars, deployVars, data, data2, swaps, rows, requestVars,
                   baseRows, dbRows>>

\* surveyModelGet.py lines 167-195: the prediction, then the finally clause
\* puts original_model_path back
SurveyFinish(c) ==
    /\ survey_pc[c].pc = "patched"
    /\ ret' = check_migraine_risk_from_survey(RequestUser)
    /\ MODEL_PATH' = survey_pc[c].original_model_path
    /\ survey_pc' = [survey_pc EXCEPT ![c].pc = "idle"]
    /\ UNCHANGED <<storeVars, clock, runs, returned, writerVars, trainerVars,
                   predictorVars, deployVars, data, data2, swaps, rows, requestVars,
                   baseRows, dbRows>>

NextPatch ==
    \/ \E c \in SurveyCallers : SurveyBegin(c)
    \/ \E c \in SurveyCallers : SurveyPatch(c)
    \/ \E c \in SurveyCallers : SurveyFinish(c)
    \/ CheckMigraineRisk

SpecPatch == InitPatch /\ [][NextPatch]_vars

NoSurveyRequestInProgress == \A c \in SurveyCallers : survey_pc[c].pc = "idle"

SleepDebtPerDay(days) ==
    LET n == Len(days)
        deficit == [i \in 1..n |-> Max(0, 70 - Get(days[i], "Sleep_h"))]
        sleep_debt == SumSeq(deficit, n)
    IN  IF sleep_debt > 70 THEN Min(1000, sleep_debt * 10) ELSE 0

\* simple_predict.py lines 139-145
SleepDebtTerm(days) ==
    LET n == Len(days)
        sleep_debt == Max(0, 70 * n - SumOf(days, "Sleep_h", n))
    IN  IF sleep_debt > 70 THEN Min(1000, sleep_debt * 10) ELSE 0

\* simple_predict.py lines 147-152 counting a day from stress 70
StressFromSeventy(days) ==
    LET high_stress_days ==
            Cardinality({i \in 1..Len(days) : Get(days[i], "Stress_level_0_100") >= 700})
    IN  IF high_stress_days >= 3 THEN Min(800, high_stress_days * 200) ELSE 0

\* simple_predict.py lines 147-152
StressAccumulationTerm(days) ==
    LET high_stress_days ==
            Cardinality({i \in 1..Len(days) : Get(days[i], "Stress_level_0_100") > 700})
    IN  IF high_stress_days >= 3 THEN Min(800, high_stress_days * 200) ELSE 0

\* simple_predict.py lines 154-175
ConsecutivePoorTerm(days) ==
    LET max_consecutive == MaxConsecutive(days)
    IN  IF max_consecutive >= 3 THEN Min(1500, max_consecutive * 400) ELSE 0

\* the kinds of day the three rules tell apart: sleep and stress on either
\* side of and on the thresholds, few steps before a screen, the rest as on
\* an excellent day
RuleDayKinds ==
    [calm        |-> [Sleep_h |-> 80, Stress_level_0_100 |-> 200],
     stress70    |-> [Sleep_h |-> 70, Stress_level_0_100 |-> 700],
     poor        |-> [Sleep_h |-> 60, Stress_level_0_100 |-> 710],
     short_sleep |-> [Sleep_h |-> 54, Stress_level_0_100 |-> 200],
     idle        |-> [Sleep_h |-> 70, Stress_level_0_100 |-> 200,
                      Steps_and_activity |-> 40000, Screen_time_h |-> 85]]

\* the daily_sensor row of a day of the kind
RuleDayRow(kind) ==
    [i \in 1..Len(feature_names) |->
        [key |-> feature_names[i],
         value |-> IF feature_names[i] \in DOMAIN RuleDayKinds[kind]
                   THEN RuleDayKinds[kind][feature_names[i]]
                   ELSE DayValue("excellent", feature_names[i]),
         is_none |-> FALSE]]

RECURSIVE RuleKindLists(_, _)
\* the kinds of n days in at most b stretches of one kind
RuleKindLists(n, b) ==
    IF n = 0 THEN {<<>>}
    ELSE IF b = 0 THEN {}
    ELSE UNION {{[i \in 1..len |-> kind] \o rest :
                   rest \in {r \in RuleKindLists(n - len, b - 1) :
                                r = <<>> \/ r[1] # kind}}
                : <<kind, len>> \in (DOMAIN RuleDayKinds) \X (1..n)}

\* one to seven days, oldest first, in at most MaxBlocks stretches of one kind
RuleDaysLists ==
    UNION {{[i \in 1..n |-> RuleDayRow(kinds[i])] : kinds \in RuleKindLists(n, MaxBlocks)}
           : n \in 1..LastDays}

InitRules ==
    /\ InitTrained
    /\ InitIdle
    /\ sensorBase = FALSE
    /\ surveyBase = FALSE
    /\ surveyUser = {}
    /\ data = <<>>
    /\ data2 = <<>>
    /\ swaps = 0
    /\ rows \in RuleDaysLists
    /\ InitNoRequest

\* simple_predict.py lines 128-207 on the history and today of the request,
\* with what the first three rules add to the adjustment
CalculateAdjustmentTerms ==
    /\ ret' = [op |-> "_calculate_temporal_adjustment", error |-> "none",
               adjustment |-> _calculate_temporal_adjustment(HistoryData, TodayData),
               sleep_debt |-> SleepDebtTerm(DaysData),
               stress_accumulation |-> StressAccumulationTerm(DaysData),
               consecutive_poor |-> ConsecutivePoorTerm(DaysData)]
    /\ UNCHANGED <<storeVars, clock, runs, returned, writerVars, trainerVars,
                   predictorVars, deployVars, inputVars>>

NextRules == CalculateAdjustmentTerms \/ PredictMigraineDays

SpecRules == InitRules /\ [][NextRules]_vars

Adjusted == ret.op = "_calculate_temporal_adjustment"

\* the hours slept on day i of the request, in tenths
SleepOn(i) == Get(format_sensor_data(rows[i]), "Sleep_h")
StressOn(i) == Get(format_sensor_data(rows[i]), "Stress_level_0_100")

\* C24 as stated: the sleep-debt shortfall is the sum over the days of
\* max(0, 7 - sleep_i), so that a day longer than 7 hours never cancels another
\* day's deficit, and it adds min(10, shortfall) when it exceeds 7, else 0.
C24_SleepDebtSumsDailyShortfalls ==
    Adjusted =>
        LET shortfall ==
                SumSeq([i \in 1..Len(rows) |-> Max(0, 70 - SleepOn(i))], Len(rows))
        IN  ret.sleep_debt = IF shortfall > 70 THEN Min(1000, shortfall * 10) ELSE 0

\* C24 (amended): the shortfall is the daily deficits below 7 hours less the
\* daily surpluses above 7 hours, and 0 when the surpluses are the larger; it
\* adds min(10, shortfall) when it exceeds 7, else 0.
C24_SleepDebtIsNetShortfall ==
    Adjusted =>
        LET deficits ==
                SumSeq([i \in 1..Len(rows) |-> Max(0, 70 - SleepOn(i))], Len(rows))
            surpluses ==
                SumSeq([i \in 1..Len(rows) |-> Max(0, SleepOn(i) - 70)], Len(rows))
            shortfall == IF deficits > surpluses THEN deficits - surpluses ELSE 0
        IN  ret.sleep_debt = IF shortfall > 70 THEN Min(1000, shortfall * 10) ELSE 0

\* six days of 5.4 hours and one of 8: the deficits are 9.6 hours, the
\* shortfall 8.6
C24_Witness ==
    /\ Adjusted
    /\ Cardinality({i \in 1..Len(rows) : SleepOn(i) = 54}) = 6
    /\ Cardinality({i \in 1..Len(rows) : SleepOn(i) = 80}) = 1
    /\ ret.sleep_debt = 860

\* C25 as stated: the stress rule counts the days with stress >= 70, a day of
\* exactly 70 included, and adds min(8, count * 2) when the count is >= 3.
C25_StressCountsFromSeventy ==
    Adjusted =>
        LET count == Cardinality({i \in 1..Len(rows) : StressOn(i) >= 700})
        IN  ret.stress_accumulation = IF count >= 3 THEN Min(800, count * 200) ELSE 0

\* C25 (amended): the stress rule counts the days with stress above 70, a day
\* of exactly 70 not included, and adds min(8, count * 2) when the count is
\* >= 3, else 0.
C25_StressCountsAboveSeventy ==
    Adjusted =>
        LET count == Len(rows) - Cardinality({i \in 1..Len(rows) : StressOn(i) <= 700})
        IN  ret.stress_accumulation = IF count >= 3 THEN Min(800, count * 200) ELSE 0

\* four days of stress exactly 70 and three of 71 add 6, not 8
C25_Witness ==
    /\ Adjusted
    /\ Cardinality({i \in 1..Len(rows) : StressOn(i) = 700}) = 4
    /\ Cardinality({i \in 1..Len(rows) : StressOn(i) = 710}) = 3
    /\ ret.stress_accumulation = 600

\* the day trips at least two of sleep < 6.5 h, stress > 70, steps < 5000 and
\* screen time > 8 h
PoorOn(i) ==
    LET day == format_sensor_data(rows[i])
    IN  Cardinality({k \in {"Sleep_h", "Stress_level_0_100", "Steps_and_activity",
                            "Screen_time_h"} :
                       \/ k = "Sleep_h" /\ Get(day, k) < 65
                       \/ k = "Stress_level_0_100" /\ Get(day, k) > 700
                       \/ k = "Steps_and_activity" /\ Get(day, k) < 50000
                       \/ k = "Screen_time_h" /\ Get(day, k) > 80}) >= 2

\* the lengths of the stretches of poor days anywhere in the request
PoorRuns ==
    LET poor == {d \in 1..Len(rows) : PoorOn(d)}
    IN  {0} \cup {p[2] - p[1] + 1 : p \in
                     {q \in (1..Len(rows)) \X (1..Len(rows)) :
                         q[1] <= q[2] /\ (q[1]..q[2]) \subseteq poor}}

\* C26: the consecutive poor days rule takes the longest run of poor days
\* anywhere in history plus today, not only a run ending today, and adds
\* min(15, run * 4) when that run is >= 3, else 0.
C26_LongestPoorRunAnywhere ==
    Adjusted =>
        LET run == CHOOSE r \in PoorRuns : \A q \in PoorRuns : q <= r
        IN  ret.consecutive_poor = IF run >= 3 THEN Min(1500, run * 400) ELSE 0

\* three poor days followed by days that are not poor
C26_Witness ==
    /\ Adjusted
    /\ Len(rows) = LastDays
    /\ \A i \in 1..3 : PoorOn(i)
    /\ \A i \in 4..LastDays : ~PoorOn(i)
    /\ ret.consecutive_poor = 1200

(***************************************************************************)
(* The rows of the last 7 days as the store returns them: every row whose  *)
(* created_at lies within 7 times 24 hours, however many there are.        *)
(***************************************************************************)
\* sensorAiGet.py lines 21-31: no row, or up to LastDays + MaxExtraRows rows,
\* oldest first, of calm and poor days
WindowRowLists ==
    {<<>>} \cup
    UNION {{[i \in 1..n |-> RuleDayRow(kinds[i])] :
              kinds \in {k \in RuleKindLists(n, MaxBlocks) :
                            \A i \in 1..n : k[i] \in {"calm", "poor"}}}
           : n \in 1..(LastDays + MaxExtraRows)}

InitWindow ==
    /\ \/ InitTrained
       \/ InitStored(StoredRows) /\ InitUntrained
    /\ InitIdle
    /\ sensorBase = FALSE
    /\ surveyBase = FALSE
    /\ surveyUser = {}
    /\ data = <<>>
    /\ data2 = <<>>
    /\ swaps = 0
    /\ rows \in WindowRowLists
    /\ InitNoRequest

\* sensorAiGet.py lines 36-56 over the rows of the store, with the days
\* predict_migraine takes as history (simple_predict.py lines 60-61)
CheckMigraineRiskWindow ==
    /\ ret' = LET result == check_migraine_risk(rows)
              IN  [op |-> "check_migraine_risk", error |-> result.error,
                   result |-> result,
                   history_days |-> IF result.error = "none" THEN Len(HistoryData) ELSE 0]
    /\ UNCHANGED <<storeVars, clock, runs, returned, writerVars, trainerVars,
                   predictorVars, deployVars, inputVars>>

NextWindow == CheckMigraineRiskWindow \/ PredictMigraineDays

SpecWindow == InitWindow /\ [][NextWindow]_vars

\* C27: whatever rows the store returns for the last 7 days, the adjustment
\* of a prediction is computed from at most 6 prior days plus today.
C27_AtMostSixPriorDays ==
    (ret.op = "check_migraine_risk" /\ ret.error = "none")
        => ret.history_days <= LastDays - 1

DbRowLists ==
    {[i \in 1..(m + n + k) |->
        [complete |-> i <= m + n, Migraine_today_0_or_1 |-> IF i <= m THEN 1 ELSE 0]] :
     m \in 0..2, n \in 0..MaxDbRows, k \in 0..1}

RECURSIVE StoreAll(_, _, _, _)
\* sensorAiGet.py lines 69-76: store_training_data for every row from the
\* i-th on whose formatted vector is complete, one save_user_data after the
\* other (user_model_manager.py lines 96-113)
StoreAll(file, db_rows, i, now) ==
    IF i > Len(db_rows) THEN file
    ELSE IF ~db_rows[i].complete THEN StoreAll(file, db_rows, i + 1, now)
    ELSE LET df_existing ==
                 IF ~file.exists THEN NoFile ELSE [exists |-> TRUE, rows |-> ReadCsv(file)]
             sensor_data ==
                 [has_label |-> TRUE,
                  Migraine_today_0_or_1 |-> db_rows[i].Migraine_today_0_or_1,
                  features |-> "complete"]
         IN  StoreAll(ToCsv(Concat(df_existing, Record(sensor_data, now + 1))),
                      db_rows, i + 1, now + 1)

InitFromDb ==
    /\ InitEmpty
    /\ InitUntrained
    /\ InitIdle
    /\ sensorBase = FALSE
    /\ surveyBase = FALSE
    /\ surveyUser = {}
    /\ data = <<>>
    /\ data2 = <<>>
    /\ swaps = 0
    /\ rows = <<>>
    /\ classifier_proba = 0
    /\ surveyInput = NoSurveyInput
    /\ env = NoRequest
    /\ MODEL_PATH = "models/best_model.pkl"
    /\ survey_pc = [c \in SurveyCallers |->
                      [pc |-> "idle", original_model_path |-> "models/best_model.pkl"]]
    /\ baseRows = <<>>
    /\ dbRows \in DbRowLists

\* sensorAiGet.py lines 58-94
TrainUserModelFromDb ==
    LET stored_count == Cardinality({i \in 1..Len(dbRows) : dbRows[i].complete})
        stored == StoreAll(dataFile, dbRows, 1, clock)
        result == TrainChecks(stored, MinDataPoints)
    IN  /\ clock + stored_count <= MaxDbClock
        /\ IF dbRows = <<>>
           THEN /\ ret' = [op |-> "train_user_model_from_db",
                           error |-> "No training data with migraine outcomes found",
                           stored_count |-> 0, data_points |-> 0]
                /\ UNCHANGED <<storeVars, clock, runs, returned>>
           ELSE /\ dataFile' = stored
                /\ clock' = clock + stored_count
                /\ returned' = returned \cup ((clock + 1)..(clock + stored_count))
                /\ IF stored_count < 10
                   THEN /\ ret' = [op |-> "train_user_model_from_db",
                                   error |-> "Insufficient training data",
                                   stored_count |-> stored_count, data_points |-> 0]
                        /\ UNCHANGED <<modelFile, scalerFile, runs>>
                   ELSE IF result.error # "none"
                   THEN /\ ret' = [op |-> "train_user_model_from_db",
                                   error |-> "Training failed",
                                   stored_count |-> stored_count, data_points |-> 0]
                        /\ UNCHANGED <<modelFile, scalerFile, runs>>
                   ELSE /\ runs < MaxRuns
                        /\ runs' = runs + 1
                        /\ modelFile' = Fit(runs + 1, result)
                        /\ scalerFile' = Fit(runs + 1, result)
                        /\ ret' = [op |-> "train_user_model_from_db", error |-> "none",
                                   stored_count |-> stored_count,
                                   data_points |-> result.data_points]
        /\ UNCHANGED <<writerVars, trainerVars, predictorVars, offStore>>

NextFromDb == TrainUserModelFromDb \/ train_user_model

SpecFromDb == InitFromDb /\ [][NextFromDb]_vars

\* C29: train_user_model_from_db is idempotent on the per-user dataset: a
\* call that follows an earlier call leaves the number of stored rows as the
\* earlier call left it, and a call that reports 'Insufficient training data'
\* leaves the dataset unchanged.
C29_FromDbIdempotentOnDataset ==
    [][/\ (ret.op = "train_user_model_from_db" /\ ret'.op = "train_user_model_from_db")
          => get_user_data_count(dataFile') = get_user_data_count(dataFile)
       /\ ret'.error = "Insufficient training data" => dataFile' = dataFile]_vars

\* C30: a train_user_model call that fails (no data file, too few rows, a
\* single class) changes nothing: the model, the scaler and the dataset on
\* disk are after the call exactly what they were before it.
C30_FailedTrainingChangesNothing ==
    [][(tpc = "idle" /\ tpc' = "idle"
          /\ ret'.op = "train_user_model" /\ ret'.error # "none"
          /\ ret' = TrainChecks(dataFile, MinDataPoints))
        => storeVars' = storeVars]_vars

\* a user with a model on disk whose later training call failed
C30_Witness ==
    /\ ret.op = "train_user_model"
    /\ ret.error = "ValueError"
    /\ modelFile.exists
    /\ scalerFile.exists
    /\ tpc = "idle"

(***************************************************************************)
(* The held-out split of base training: survey_model/train_base_model.py   *)
(* split_by_users and sensorDataAi/train_model.py MigrainePredictor.train. *)
(* A row of a corpus is followed by the user it came from and its label.   *)
(***************************************************************************)
\* one base training run on a corpus of 1 to MaxUsers users with the same
\* number of rows each, the rows of a user next to one another, the outcomes
\* alternating
Corpora ==
    {[i \in 1..(u * r) |-> [user |-> (i + r - 1) \div r, label |-> i % 2]] :
     u \in 1..MaxUsers, r \in 1..MaxRowsPerUser}

\* sklearn train_test_split with test_size=0.2: ceil(0.2 * n) go to the test side
NTest(n) == (n + 4) \div 5

InitSplit ==
    /\ InitEmpty
    /\ InitUntrained
    /\ InitIdle
    /\ sensorBase = FALSE
    /\ surveyBase = FALSE
    /\ surveyUser = {}
    /\ data = <<>>
    /\ data2 = <<>>
    /\ swaps = 0
    /\ rows = <<>>
    /\ classifier_proba = 0
    /\ surveyInput = NoSurveyInput
    /\ env = NoRequest
    /\ MODEL_PATH = "models/best_model.pkl"
    /\ survey_pc = [c \in SurveyCallers |->
                      [pc |-> "idle", original_model_path |-> "models/best_model.pkl"]]
    /\ baseRows \in Corpora
    /\ dbRows = <<>>

\* train_base_model.py lines 132-170: the users are shuffled and split, a row
\* goes where its user went
SplitByUsers ==
    LET unique_users == {baseRows[i].user : i \in 1..Len(baseRows)}
        n_test == NTest(Cardinality(unique_users))
    IN  /\ ret = NoCall
        /\ IF Cardinality(unique_users) - n_test = 0
           THEN ret' = [op |-> "split_by_users", error |-> "ValueError",
                        train |-> {}, test |-> {}]
           ELSE \E test_users \in SUBSET unique_users :
                   /\ Cardinality(test_users) = n_test
                   /\ ret' = [op |-> "split_by_users", error |-> "none",
                              train |-> {i \in 1..Len(baseRows) :
                                           baseRows[i].user \notin test_users},
                              test |-> {i \in 1..Len(baseRows) :
                                          baseRows[i].user \in test_users}]
        /\ UNCHANGED <<storeVars, clock, runs, returned, writerVars, trainerVars,
                       predictorVars, deployVars, inputVars>>

\* train_model.py lines 135-149: train_test_split(X, y, test_size=0.2,
\* stratify=y) shuffles the rows and splits them, each outcome in proportion
MigrainePredictorTrain ==
    LET n == Len(baseRows)
        n_test == NTest(n)
        Class(label) == {i \in 1..n : baseRows[i].label = label}
        classes == {label \in Labels : Class(label) # {}}
        \* the rows of one outcome that may go to the test side together
        InProportion(label) ==
            LET share == Cardinality(Class(label)) * n_test
            IN  {taken \in SUBSET Class(label) :
                    /\ Cardinality(taken) * n <= share + n - 1
                    /\ Cardinality(taken) * n + n - 1 >= share}
    IN  /\ ret = NoCall
        /\ IF \/ \E label \in classes : Cardinality(Class(label)) < 2
              \/ n_test < Cardinality(classes)
              \/ n - n_test < Cardinality(classes)
           THEN ret' = [op |-> "MigrainePredictor.train", error |-> "ValueError",
                        train |-> {}, test |-> {}]
           ELSE \E test \in {t0 \cup t1 : <<t0, t1>> \in
                                  InProportion(0) \X InProportion(1)} :
                   /\ Cardinality(test) = n_test
                   /\ ret' = [op |-> "MigrainePredictor.train", error |-> "none",
                              train |-> (1..n) \ test, test |-> test]
        /\ UNCHANGED <<storeVars, clock, runs, returned, writerVars, trainerVars,
                       predictorVars, deployVars, inputVars>>

NextSplit == SplitByUsers \/ MigrainePredictorTrain

SpecSplit == InitSplit /\ [][NextSplit]_vars

\* C23: every base training run, survey or sensor, splits its corpus by
\* user: no user has rows both in the train and in the test partition.
C23_SplitByUser ==
    (ret.op \in {"split_by_users", "MigrainePredictor.train"} /\ ret.error = "none")
        => {baseRows[i].user : i \in ret.train} \cap {baseRows[i].user : i \in ret.test} = {}

====
